---- MODULE Spec2Model ----
(***************************************************************************)
(* Lead enrichment (core/enrichment.py) and its probes (osint-tools/), the  *)
(* web service (main.py) and the storage of the results.                   *)
(*                                                                         *)
(* SpecLead : one call of enrich_real_lead, stepped stage by stage, with   *)
(*            the outcome of every external call chosen by the             *)
(*            environment.                                                 *)
(* Spec     : one call of process_leads_parallel, alone or within the      *)
(*            driver process_real_leads_production_parallel: a             *)
(*            ThreadPoolExecutor of max_workers threads, the submission    *)
(*            loop and the as_completed collection loop.                   *)
(* FairSpec : Spec with its threads scheduled fairly.                      *)
(* SpecJob  : the web service of main.py: the handlers of POST /process    *)
(*            and GET /status and the background job threads.              *)
(* SpecAll  : the behaviours of Spec and those of SpecJob.                 *)
(* SpecStore: the storage side (core/pocketbase_client.py and             *)
(*            core/exporter.py): a PocketBaseClient whose methods are      *)
(*            stepped request by request, and the exporters that use it,   *)
(*            with every answer of the servers.                            *)
(*                                                                         *)
(* Python strings are sequences of one-character strings.  An optional     *)
(* value (a dict key that may be absent, a variable that may be None) is   *)
(* a sequence of length 0 or 1.                                            *)
(***************************************************************************)
EXTENDS Integers, Sequences, FiniteSets, TLC

\* ------------------------------------------------------------------ bounds
\* Most '[+]' lines the account-discovery executable prints in one run.
MaxAccounts == 20
\* Most leads handed to process_leads_parallel.
MaxLeads == 2
\* Social platforms checked by social_media_lookup (28 in the source).
MaxPlatforms == 2
\* Largest max_workers handed to process_leads_parallel.
MaxWorkers == 2
MaxRequests == 2

\* ------------------------------------------------------- Python primitives
None == <<>>
Some(v) == <<v>>

Min(a, b) == IF a <= b THEN a ELSE b

\* The value of a lead's email that is not a str (None).
NoneValue == <<"None">>
IsStr(s) == s # NoneValue

Whitespace == {" "}

\* str.split(sep) for a one-character separator: the pieces between the
\* separators, empty pieces included.
RECURSIVE SplitFrom(_, _, _)
SplitFrom(s, sep, cur) ==
    IF s = <<>> THEN <<cur>>
    ELSE IF Head(s) = sep THEN <<cur>> \o SplitFrom(Tail(s), sep, <<>>)
    ELSE SplitFrom(Tail(s), sep, Append(cur, Head(s)))

Split(s, sep) == SplitFrom(s, sep, <<>>)

\* str.split() without separator: the maximal runs of non-whitespace.
RECURSIVE WordsFrom(_, _)
WordsFrom(s, cur) ==
    IF s = <<>> THEN (IF cur = <<>> THEN <<>> ELSE <<cur>>)
    ELSE IF Head(s) \in Whitespace
         THEN (IF cur = <<>> THEN <<>> ELSE <<cur>>) \o WordsFrom(Tail(s), <<>>)
         ELSE WordsFrom(Tail(s), Append(cur, Head(s)))

Words(s) == WordsFrom(s, <<>>)

\* str.lstrip() and str.rstrip() within one line.
RECURSIVE LStrip(_)
LStrip(s) ==
    IF s # <<>> /\ Head(s) \in Whitespace \cup {"\n"} THEN LStrip(Tail(s)) ELSE s

RECURSIVE RStrip(_)
RStrip(s) ==
    IF s # <<>> /\ s[Len(s)] \in Whitespace \cup {"\n"}
    THEN RStrip(SubSeq(s, 1, Len(s) - 1)) ELSE s

StartsWith(s, p) == Len(s) >= Len(p) /\ SubSeq(s, 1, Len(p)) = p

\* ------------------------------------------------ osint-tools/validators.py
Alnum == {"a", "b", "c", "x"}
LocalChars == Alnum \cup {"_", ".", "+", "-"}
DomainChars == Alnum \cup {"-"}
TailChars == Alnum \cup {"-", "."}

AllIn(s, C) == \A i \in 1..Len(s) : s[i] \in C

\* re.match(r'^[a-zA-Z0-9_.+-]+@[a-zA-Z0-9-]+\.[a-zA-Z0-9-.]+$', email)
RegexMatch(email) ==
    \E i \in 2..Len(email) : \E j \in (i + 2)..(Len(email) - 1) :
        /\ email[i] = "@"
        /\ email[j] = "."
        /\ AllIn(SubSeq(email, 1, i - 1), LocalChars)
        /\ AllIn(SubSeq(email, i + 1, j - 1), DomainChars)
        /\ AllIn(SubSeq(email, j + 1, Len(email)), TailChars)

\* validate_email without its syntax check: the MX lookup is always made.
validate_email_NoSyntax(email, mxOk) ==
    IF ~IsStr(email)
    THEN [exc |-> "TypeError", is_valid |-> FALSE, probes |-> {}]
    ELSE [exc |-> "", is_valid |-> mxOk, probes |-> {"validate_mx"}]

\* validate_email(email); mxOk is the outcome of dns.resolver.resolve(domain,
\* 'MX').  exc is the exception that leaves the function, "" for none;
\* probes are the network calls made.
validate_email(email, mxOk) ==
    IF ~IsStr(email)
    THEN [exc |-> "TypeError", is_valid |-> FALSE, probes |-> {}]
    ELSE IF ~RegexMatch(email)
    THEN [exc |-> "", is_valid |-> FALSE, probes |-> {}]
    ELSE [exc |-> "", is_valid |-> mxOk, probes |-> {"validate_mx"}]

\* ------------------------------------------------- osint-tools/dns_utils.py
\* resolve_dns(domain, record_type); answer is Some(records) when the
\* resolver answers and None when it raises.
resolve_dns(record_type, answer) ==
    IF answer # None THEN answer[1] ELSE << <<"Error resolving", record_type>> >>

RECURSIVE Filter(_, _)
Filter(s, tag) ==
    IF s = <<>> THEN <<>>
    ELSE (IF tag \in {Head(s)[k] : k \in 1..Len(Head(s))} THEN <<Head(s)>> ELSE <<>>)
         \o Filter(Tail(s), tag)

\* Python's `x or default` for a list x.
OrElse(x, default) == IF x # <<>> THEN x ELSE default

\* get_mail_server_details(domain); a record is a sequence of the tokens it
\* contains, and 'v=spf1' in record is membership of the token.
get_mail_server_details(mxAnswer, txtAnswer) ==
    LET mx_records == resolve_dns("MX", mxAnswer)
        txt_records == resolve_dns("TXT", txtAnswer)
        spf == Filter(txt_records, "v=spf1")
        dmarc == Filter(txt_records, "_dmarc")
        dkim == Filter(txt_records, "v=DKIM1")
    IN  [MX |-> OrElse(mx_records, << <<"No MX records found.">> >>),
         SPF |-> OrElse(spf, << <<"No SPF record found.">> >>),
         DMARC |-> OrElse(dmarc, << <<"No DMARC record found.">> >>),
         DKIM |-> OrElse(dkim, << <<"No DKIM record found.">> >>)]

\* ------------------------------------------------ osint-tools/whois_utils.py
\* A lookup that fails when a registration field is absent.
domain_whois_Strict(info) ==
    IF info = None \/ \E f \in DOMAIN info[1] : info[1][f] = None
    THEN [Error |-> "WHOIS lookup failed"]
    ELSE [Registrar |-> info[1].registrar[1], Creation |-> info[1].creation_date[1],
          Expiration |-> info[1].expiration_date[1], Organization |-> info[1].org[1]]

\* domain_whois(domain); info is Some(record of optional fields) when
\* whois.whois answers and None when it raises.
domain_whois(info) ==
    IF info = None
    THEN [Error |-> "WHOIS lookup failed"]
    ELSE [Registrar |-> IF info[1].registrar # None THEN info[1].registrar[1] ELSE "Unknown",
          Creation |-> IF info[1].creation_date # None THEN info[1].creation_date[1] ELSE "Unknown",
          Expiration |-> IF info[1].expiration_date # None THEN info[1].expiration_date[1] ELSE "Unknown",
          Organization |-> IF info[1].org # None THEN info[1].org[1] ELSE "Unknown"]

\* ---------------------------------------------- osint-tools/social_media.py
\* The first keys of the platforms dict, in insertion order; the model
\* checks the first MaxPlatforms of them.
PlatformNames == <<"Twitter", "GitHub", "Instagram", "Facebook", "LinkedIn", "YouTube">>
Platforms == SubSeq(PlatformNames, 1, MaxPlatforms)

\* social_media_lookup(email); http[p] is the outcome of requests.get for
\* platform p: "200", "404" (any other status) or "error" (RequestException).
RECURSIVE SocialScan(_, _, _)
SocialScan(http, k, acc) ==
    IF k > Len(Platforms) THEN acc
    ELSE SocialScan(http, k + 1,
            IF http[k] = "200"
            THEN [acc EXCEPT !.Found = Append(@, Platforms[k])]
            ELSE IF http[k] = "error"
            THEN [acc EXCEPT !.Failed = Append(@, Platforms[k])]
            ELSE acc)

\* A lookup that gives up at the first platform whose request fails.
RECURSIVE SocialScanAbort(_, _, _)
SocialScanAbort(http, k, acc) ==
    IF k > Len(Platforms) THEN acc
    ELSE IF http[k] = "error" THEN [acc EXCEPT !.Failed = Append(@, Platforms[k])]
    ELSE SocialScanAbort(http, k + 1,
            IF http[k] = "200" THEN [acc EXCEPT !.Found = Append(@, Platforms[k])] ELSE acc)

social_media_lookup_Abort(http) == SocialScanAbort(http, 1, [Found |-> <<>>, Failed |-> <<>>])

social_media_lookup(http) == SocialScan(http, 1, [Found |-> <<>>, Failed |-> <<>>])

\* ------------------------------------------ core/enrichment.py: one lead
\* A lead is a dict: a record whose DOMAIN is the set of its keys.
HasKeys(lead, ks) == ks \subseteq DOMAIN lead

EmptyData == [email_valid |-> None, dns_info |-> None, whois_info |-> None,
              holehe_accounts |-> None, social_media |-> None]

\* Credits of the stages.
EmailPoints == 20
DnsPointsTen == 15 - 5
DnsPoints == 15
WhoisPoints == 15
AccountPoints == 2
AccountCapForty == 30 + 10
AccountCap == 30
SocialPoints == 20
ScoreCapHalf == 100 \div 2
ScoreCap == 100
\* The defaults of the driver's num_leads and of the request's parameters.
DefaultNumLeads == 10
DefaultBatchSize == 1000
DefaultMaxWorkers == 80

holehe_paths == <<"holehe", "/usr/bin/holehe", "/usr/local/bin/holehe", "/app/venv/bin/holehe">>

\* The state of one call: pc is the next block of the function, result is
\* enrichment_result, exc the exception travelling to the handler of the
\* outer try, hr is holehe_result, path the index of the next candidate in
\* holehe_paths.  The rest records what happened: probes the external calls
\* attempted so far, trace the stages entered so far, resolved whether the
\* MX and the TXT lookup of the DNS stage were answered, missing the number
\* of candidates that raised FileNotFoundError, mx_ok what the MX lookup of
\* validate_email came to, None while it was not made, whois_answer what
\* whois.whois came to once it was called, social_answer what the platform
\* requests came to, from the end of the social stage to the next line.
CallStart == [pc |-> "entry", result |-> None, exc |-> "", domain |-> None,
              hr |-> None, path |-> 1, probes |-> {}, trace |-> <<>>,
              resolved |-> None, missing |-> 0, mx_ok |-> None,
              whois_answer |-> None, social_answer |-> None]

\* Lines 205-220: the prints and the initial enrichment_result.  A missing
\* key raises KeyError before the try block is entered.
Entry(st, lead) ==
    IF ~HasKeys(lead, {"id", "email", "company", "country"})
    THEN [st EXCEPT !.pc = "raised", !.exc = "KeyError"]
    ELSE [st EXCEPT !.pc = "email",
             !.result = Some([lead_id |-> lead.id, email |-> lead.email,
                              company |-> lead.company, country |-> lead.country,
                              enrichment_data |-> EmptyData, score |-> 0,
                              processing_time |-> 0, status |-> "processing",
                              error |-> None])]

\* score -= pts
AddScoreSubtract(st, pts) == [st EXCEPT !.result[1].score = @ - pts]
AddScore(st, pts) == [st EXCEPT !.result[1].score = @ + pts]
SetData(st, key, v) == [st EXCEPT !.result[1].enrichment_data[key] = Some(v)]
Enter(st, stage) == [st EXCEPT !.trace = Append(@, stage)]

\* An email validation that gives half the credit for a well-formed address
\* whose domain has no MX record.
StageEmailPartial(st, lead, mxOk) ==
    LET v == validate_email(lead.email, mxOk)
        s == [Enter(st, "email") EXCEPT !.probes = @ \cup v.probes,
                 !.mx_ok = IF "validate_mx" \in v.probes THEN Some(mxOk) ELSE None]
    IN  IF v.exc # "" THEN [s EXCEPT !.pc = "except", !.exc = v.exc]
        ELSE IF v.is_valid
        THEN [AddScore(SetData(s, "email_valid", TRUE), EmailPoints) EXCEPT !.pc = "domain"]
        ELSE [AddScore(SetData(s, "email_valid", FALSE),
                       IF v.probes # {} THEN EmailPoints \div 2 ELSE 0) EXCEPT !.pc = "domain"]

\* Lines 223-232: email validation.
StageEmail(st, lead, mxOk) ==
    LET v == validate_email(lead.email, mxOk)
        s == [Enter(st, "email") EXCEPT !.probes = @ \cup v.probes,
                 !.mx_ok = IF "validate_mx" \in v.probes THEN Some(mxOk) ELSE None]
    IN  IF v.exc # "" THEN [s EXCEPT !.pc = "except", !.exc = v.exc]
        ELSE IF v.is_valid
        THEN [AddScore(SetData(s, "email_valid", TRUE), EmailPoints) EXCEPT !.pc = "domain"]
        ELSE [SetData(s, "email_valid", FALSE) EXCEPT !.pc = "domain"]

\* A domain step that goes on to the WHOIS stage, past the DNS stage.
StageDomainToWhois(st, lead) ==
    LET parts == Split(lead.email, "@")
    IN  IF Len(parts) < 2 THEN [st EXCEPT !.pc = "except", !.exc = "IndexError"]
        ELSE [st EXCEPT !.pc = "whois", !.domain = Some(parts[2])]

\* Line 235: domain = lead["email"].split("@")[1]
StageDomain(st, lead) ==
    LET parts == Split(lead.email, "@")
    IN  IF Len(parts) < 2 THEN [st EXCEPT !.pc = "except", !.exc = "IndexError"]
        ELSE [st EXCEPT !.pc = "dns", !.domain = Some(parts[2])]

\* A dict is truthy when it has a key.
Truthy(d) == DOMAIN d # {}

\* Lines 239-248: DNS analysis.
StageDns(st, mxAnswer, txtAnswer) ==
    LET dns_info == get_mail_server_details(mxAnswer, txtAnswer)
        s == [Enter(st, "dns") EXCEPT !.probes = @ \cup {"dns_mx", "dns_txt"}, !.pc = "whois",
                                      !.resolved = Some([mx |-> mxAnswer # None,
                                                         txt |-> txtAnswer # None])]
    IN  IF Truthy(dns_info) THEN AddScore(SetData(s, "dns_info", dns_info), DnsPoints)
        ELSE s

\* Lines 251-260: WHOIS analysis.
StageWhois(st, info) ==
    LET whois_info == domain_whois(info)
        s == [Enter(st, "whois") EXCEPT !.probes = @ \cup {"whois"}, !.pc = "holehe_run",
                                        !.whois_answer = Some(info)]
    IN  IF Truthy(whois_info) /\ "Error" \notin DOMAIN whois_info
        THEN AddScore(SetData(s, "whois_info", whois_info), WhoisPoints)
        ELSE s

\* --- account discovery (lines 264-301)
Marker == <<"[", "+", "]">>

\* What the executable prints: n hit lines, laid out in one of four ways.
HitLine == Marker \o <<" ", "x">>
MissLine == <<"[", "-", "]", " ", "x">>

Layouts == {"hits", "mixed", "bare", "indented"}

\* A text is the sequence of its lines, the pieces between its newlines: a
\* text that ends with a newline has an empty last line.
HoleheStdout(n, layout) ==
    CASE layout = "hits" -> [i \in 1..n |-> HitLine] \o << <<>> >>
      [] layout = "mixed" ->
           [i \in 1..(2 * n + 1) |-> IF i % 2 = 1 THEN MissLine ELSE HitLine] \o << <<>> >>
      [] layout = "bare" -> [i \in 1..n |-> Marker] \o << <<>> >>
      [] layout = "indented" -> [i \in 1..n |-> <<" ">> \o HitLine] \o << <<>> >>

IsMarked(line) == StartsWith(line, Marker)

\* Number of lines of a text that start with the marker.
MarkedLines(text) == Len(SelectSeq(text, IsMarked))

IsBlank(line) == AllIn(line, Whitespace)

\* text.strip().split('\n'): the blank lines at both ends go, and so does
\* the white space before the first and after the last character left.
StripSplit(text) ==
    LET inked == {i \in 1..Len(text) : ~IsBlank(text[i])}
    IN  IF inked = {} THEN << <<>> >>
        ELSE LET f == CHOOSE i \in inked : \A j \in inked : i <= j
                 l == CHOOSE i \in inked : \A j \in inked : j <= i
             IN  [i \in 1..(l - f + 1) |->
                     LET line == text[f + i - 1]
                         a == IF i = 1 THEN LStrip(line) ELSE line
                     IN  IF f + i - 1 = l THEN RStrip(a) ELSE a]

\* Lines 284-290: the platforms of the lines that start with the marker.
Platform(line) == IF Len(Words(line)) > 1 THEN Words(line)[2] ELSE <<"Unknown">>

ParseHolehe(stdout) ==
    LET marked == SelectSeq(StripSplit(stdout), IsMarked)
    IN  [i \in 1..Len(marked) |-> Platform(marked[i])]

\* The credit without its cap.
AccountCreditUncapped(found_accounts) == Len(found_accounts) * AccountPoints

\* Line 293: the credit for the accounts found.
AccountCredit(found_accounts) == Min(Len(found_accounts) * AccountPoints, AccountCap)

\* Outcomes of subprocess.run([path, email], timeout=30).
RunKinds == {"missing", "nonzero", "ok", "timeout", "oserror"}

\* A loop over holehe_paths without the handlers of the stage: a timeout
\* reaches the handler of the outer try.
StageHoleheRunUnhandled(st, run) ==
    LET s == [(IF st.path = 1 THEN Enter(st, "holehe") ELSE st)
                 EXCEPT !.probes = @ \cup {"holehe"}, !.path = @ + 1]
        last == st.path = Len(holehe_paths)
    IN  CASE run.kind = "missing" ->
               [s EXCEPT !.missing = @ + 1,
                         !.pc = IF last THEN "holehe_parse" ELSE "holehe_run"]
          [] run.kind = "nonzero" ->
               [s EXCEPT !.hr = Some([returncode |-> 1, stdout |-> run.stdout, path |-> st.path]),
                         !.pc = IF last THEN "holehe_parse" ELSE "holehe_run"]
          [] run.kind = "ok" ->
               [s EXCEPT !.hr = Some([returncode |-> 0, stdout |-> run.stdout, path |-> st.path]),
                         !.pc = "holehe_parse"]
          [] run.kind \in {"timeout", "oserror"} ->
               [s EXCEPT !.pc = "except", !.exc = "TimeoutExpired", !.hr = None]

\* Lines 269-280 and the handlers of lines 298-301: one iteration of the loop
\* over holehe_paths.  run is [kind, stdout].
StageHoleheRun(st, run) ==
    LET s == [(IF st.path = 1 THEN Enter(st, "holehe") ELSE st)
                 EXCEPT !.probes = @ \cup {"holehe"}, !.path = @ + 1]
        last == st.path = Len(holehe_paths)
    IN  CASE run.kind = "missing" ->
               [s EXCEPT !.missing = @ + 1,
                         !.pc = IF last THEN "holehe_parse" ELSE "holehe_run"]
          [] run.kind = "nonzero" ->
               [s EXCEPT !.hr = Some([returncode |-> 1, stdout |-> run.stdout, path |-> st.path]),
                         !.pc = IF last THEN "holehe_parse" ELSE "holehe_run"]
          [] run.kind = "ok" ->
               [s EXCEPT !.hr = Some([returncode |-> 0, stdout |-> run.stdout, path |-> st.path]),
                         !.pc = "holehe_parse"]
          [] run.kind \in {"timeout", "oserror"} ->
               [s EXCEPT !.pc = "social", !.hr = None]

\* Lines 282-296.  holehe_result is not read after them: the state forgets
\* it.
StageHoleheParse(st) ==
    LET s == [st EXCEPT !.pc = "social", !.hr = None]
    IN  IF st.hr # None /\ st.hr[1].returncode = 0
        THEN LET found_accounts == ParseHolehe(st.hr[1].stdout)
             IN  AddScore(SetData(s, "holehe_accounts", found_accounts),
                          AccountCredit(found_accounts))
        ELSE s

\* Lines 305-314: social media verification.  raises: social_media_lookup
\* ends with an exception that is not a RequestException.
StageSocial(st, http, raises) ==
    LET s == [Enter(st, "social") EXCEPT !.probes = @ \cup {"social"}, !.pc = "finish",
                 !.social_answer = Some(IF raises THEN [raised |-> TRUE]
                                        ELSE [raised |-> FALSE, http |-> http])]
        social_info == social_media_lookup(http)
    IN  IF raises THEN s
        ELSE IF Truthy(social_info) /\ social_info.Found # <<>>
        THEN AddScore(SetData(s, "social_media", social_info), SocialPoints)
        ELSE s

\* Lines 317-318.
StageFinish(st) ==
    [st EXCEPT !.result[1].score = Min(@, ScoreCap),
               !.result[1].status = "completed",
               !.social_answer = None,
               !.pc = "exit"]

\* A handler that records the error and raises it again.
StageExceptReraise(st) ==
    [st EXCEPT !.result[1].status = "error",
               !.result[1].error = Some(st.exc),
               !.pc = "raised"]

\* Lines 320-323: the handler of the outer try.
StageExcept(st) ==
    [st EXCEPT !.result[1].status = "error",
               !.result[1].error = Some(st.exc),
               !.exc = "",
               !.pc = "exit"]

\* An exit that times the completed results only.
StageExitCompletedOnly(st, elapsed) ==
    [st EXCEPT !.result[1].processing_time =
                   IF st.result[1].status = "completed" THEN elapsed ELSE @,
               !.pc = "returned"]

\* An exit that lets the duration of the call into the score.
StageExitTimedScore(st, elapsed) ==
    [st EXCEPT !.result[1].processing_time = elapsed,
               !.result[1].score = @ + elapsed,
               !.pc = "returned"]

\* Lines 326-333; elapsed is time.time() - lead_start_time.
StageExit(st, elapsed) ==
    [st EXCEPT !.result[1].processing_time = elapsed, !.pc = "returned"]

\* ------------------------------------------------------------ environment
GoodEmail == <<"a", "@", "b", ".", "c">>
Emails == { GoodEmail,             \* well formed
            <<"a", "b">>,          \* no '@'
            <<"a", "@", "b">>,     \* '@' but no dot in the domain
            NoneValue }            \* not a str

FullLead(i, e) == [id |-> i, email |-> e, company |-> "Acme", country |-> "US"]
\* A lead dict without the 'company' key.
BareLead(i, e) == [id |-> i, email |-> e, country |-> "US"]

MxAnswers == { None, Some(<< <<"10 mail">> >>) }
TxtAnswers == { None,
                Some(<< <<"other">> >>),
                Some(<< <<"v=spf1", "include">>, <<"v=DKIM1">>, <<"v=DMARC1", "_dmarc">> >>) }
WhoisAnswers == { None,
                  Some([registrar |-> None, creation_date |-> None,
                        expiration_date |-> None, org |-> None]),
                  Some([registrar |-> Some("R"), creation_date |-> Some("2001"),
                        expiration_date |-> Some("2031"), org |-> Some("O")]) }

\* The outcomes of one subprocess.run.
Runs == { [kind |-> k, stdout |-> <<>>] : k \in RunKinds \ {"ok"} }
           \cup { [kind |-> "ok", stdout |-> HoleheStdout(n, l)] :
                    n \in 0..MaxAccounts, l \in Layouts }

HttpOutcomes == [1..MaxPlatforms -> {"200", "404", "error"}]

\* time.time() - lead_start_time: below the clock's resolution, or not.
ElapsedValues == {0, 1}

\* Everything the outside world answers during one call of enrich_real_lead.
EnvGood == [mxOk |-> TRUE,
            mx |-> Some(<< <<"10 mail">> >>),
            txt |-> Some(<< <<"v=spf1", "include">>, <<"v=DKIM1">>, <<"v=DMARC1", "_dmarc">> >>),
            whois |-> Some([registrar |-> Some("R"), creation_date |-> Some("2001"),
                            expiration_date |-> Some("2031"), org |-> Some("O")]),
            runs |-> << [kind |-> "missing", stdout |-> <<>>],
                        [kind |-> "ok", stdout |-> HoleheStdout(3, "mixed")],
                        [kind |-> "missing", stdout |-> <<>>],
                        [kind |-> "missing", stdout |-> <<>>] >>,
            http |-> [k \in 1..MaxPlatforms |-> IF k = 1 THEN "200" ELSE "404"],
            raises |-> FALSE]

EnvDead == [mxOk |-> FALSE, mx |-> None, txt |-> None, whois |-> None,
            runs |-> [p \in 1..Len(holehe_paths) |-> [kind |-> "missing", stdout |-> <<>>]],
            http |-> [k \in 1..MaxPlatforms |-> "error"],
            raises |-> FALSE]

\* enrich_real_lead(lead) from its first line to its return or raise, the
\* outside world answering as env says and the call taking elapsed.
RECURSIVE Drive(_, _, _, _)
Drive(st, lead, env, elapsed) ==
    CASE st.pc = "entry" -> Drive(Entry(st, lead), lead, env, elapsed)
      [] st.pc = "email" -> Drive(StageEmail(st, lead, env.mxOk), lead, env, elapsed)
      [] st.pc = "domain" -> Drive(StageDomain(st, lead), lead, env, elapsed)
      [] st.pc = "dns" -> Drive(StageDns(st, env.mx, env.txt), lead, env, elapsed)
      [] st.pc = "whois" -> Drive(StageWhois(st, env.whois), lead, env, elapsed)
      [] st.pc = "holehe_run" -> Drive(StageHoleheRun(st, env.runs[st.path]), lead, env, elapsed)
      [] st.pc = "holehe_parse" -> Drive(StageHoleheParse(st), lead, env, elapsed)
      [] st.pc = "social" -> Drive(StageSocial(st, env.http, env.raises), lead, env, elapsed)
      [] st.pc = "finish" -> Drive(StageFinish(st), lead, env, elapsed)
      [] st.pc = "except" -> Drive(StageExcept(st), lead, env, elapsed)
      [] st.pc = "exit" -> Drive(StageExit(st, elapsed), lead, env, elapsed)
      [] OTHER -> st

enrich_real_lead(lead, env, elapsed) == Drive(CallStart, lead, env, elapsed)

\* ------------------------------------------------------------------ state
VARIABLES
    lead,         \* SpecLead: the argument of enrich_real_lead
    call,         \* SpecLead: the state of the call
    leads,        \* the leads handed to process_leads_parallel
    world,        \* world[i]: what the outside world answers for leads[i]
    max_workers,  \* the size of the pool
    pc,           \* where the thread running process_leads_parallel is
    submitted,    \* number of leads submitted to the executor so far
    work_queue,   \* executor._work_queue: indices of the submitted work items
    idle,         \* executor._idle_semaphore
    running,      \* executor._threads; running[w]: the work item thread w runs, 0 for none
    futures,      \* futures[i]: the future of leads[i]
    waiter,       \* as_completed: is the waiter installed
    finished,     \* as_completed: the futures to yield next, in order
    pending,      \* as_completed: the futures not yet seen finished
    notified,     \* waiter.finished_futures, in order of completion
    results,      \* the list process_leads_parallel builds
    invoked,      \* invoked[i]: number of calls of enrich_real_lead(leads[i])
    finish_order, \* the futures set so far, in the order in which they were set
    report_files, \* the parallel_enrichment_*.json files written so far
    processing_status_ref,  \* the driver's argument of that name: None or Some(dict)
    processing_status,      \* main.py: the global dict of that name
    requests,     \* requests[r]: the handler thread of the r-th POST /process
    job_threads,  \* job_threads[j]: the j-th background thread running run_osint_processing
    served,       \* the body of the response to GET /status, None before it
    pb,           \* a PocketBaseClient and the call of one of its methods under way
    export        \* a PostJobExporter and the call of one of its methods under way

leadVars == <<lead, call>>
batchVars == <<leads, world, max_workers, pc, submitted, work_queue,
               idle, running, futures, waiter, finished, pending, notified,
               results, invoked, finish_order, report_files, processing_status_ref>>
jobVars == <<processing_status, requests, job_threads, served, pb, export>>
vars == <<leadVars, batchVars, jobVars>>

\* The batch never starts.
BatchIdle ==
    /\ leads = <<>> /\ world = <<>> /\ max_workers = 1 /\ pc = "idle"
    /\ submitted = 0 /\ work_queue = <<>> /\ idle = 0
    /\ running = <<>> /\ futures = <<>> /\ waiter = FALSE /\ finished = <<>>
    /\ pending = {} /\ notified = <<>> /\ results = <<>> /\ invoked = <<>>
    /\ finish_order = <<>> /\ report_files = <<>>
    /\ processing_status_ref = None

\* Lines 28-36 of main.py: the dict as the module creates it.
NewStatus ==
    [current_job |-> None, status |-> "idle", start_time |-> None, end_time |-> None,
     total_leads |-> 0, processed_leads |-> 0, errors |-> <<>>]

\* PocketBaseClient.__init__ (lines 18-35 of pocketbase_client.py): no token,
\* no Authorization header; has_user: are user_email and user_password both
\* non-empty.  The other fields describe the call under way: the method
\* called (op), where it is (pc), where authenticate returns to (after), the
\* token and header at the entry of the latest authenticate (before), what
\* that authenticate returned (auth_ret), the token its latest attempt
\* obtained (granted), the requests attempted and the clearing of the token
\* in order (log), the last answer of the server (answer), the value the
\* method returned (ret) or the exception it raised (raised), and whether
\* json.dumps accepts the values of the dict it was given (data).
NewClient(has_user) ==
    [auth_token |-> None, authorization |-> None, has_user |-> has_user,
     pc |-> "idle", op |-> "none", data |-> "plain", caller |-> "none", after |-> "none",
     before |-> [auth_token |-> None, authorization |-> None],
     auth_ret |-> None, granted |-> None, log |-> <<>>, answer |-> None, ret |-> None,
     raised |-> None]

\* PostJobExporter.__init__ and SupabaseExporter.__init__ (lines 214-222 and
\* 19-29 of exporter.py): is there a PocketBase client, is there an API key.
\* The other fields describe the call under way: the leads handed to
\* export_to_unified_leads, the start i of the next batch, the counters, the
\* sizes of the batches posted (posts), the dict export_to_unified_leads
\* returned (result), and for export_completed_enrichments the list
\* _fetch_enriched_leads returned and the dict it returns itself (results).
NewExporter(has_client, has_key) ==
    [pb_client |-> has_client, api_key |-> has_key, pc |-> "idle", op |-> "none",
     leads |-> <<>>, i |-> 0, exported |-> 0, failed |-> 0, errors |-> <<>>,
     posts |-> <<>>, result |-> None, enriched_leads |-> None, results |-> None]

\* The web service never receives a request.
JobIdle ==
    /\ processing_status = NewStatus
    /\ requests = <<>>
    /\ job_threads = <<>>
    /\ served = None
    /\ pb = NewClient(FALSE)
    /\ export = NewExporter(FALSE, FALSE)

\* --------------------------------------------- SpecLead: enrich_real_lead
InitLead ==
    /\ lead \in { FullLead(1, e) : e \in Emails } \cup { BareLead(1, GoodEmail) }
    /\ call = CallStart
    /\ BatchIdle
    /\ JobIdle

DoEntry ==
    /\ call.pc = "entry"
    /\ call' = Entry(call, lead)
    /\ UNCHANGED <<lead, batchVars, jobVars>>

DoEmail ==
    /\ call.pc = "email"
    /\ \E mxOk \in BOOLEAN : call' = StageEmail(call, lead, mxOk)
    /\ UNCHANGED <<lead, batchVars, jobVars>>

DoDomain ==
    /\ call.pc = "domain"
    /\ call' = StageDomain(call, lead)
    /\ UNCHANGED <<lead, batchVars, jobVars>>

DoDns ==
    /\ call.pc = "dns"
    /\ \E mx \in MxAnswers, txt \in TxtAnswers : call' = StageDns(call, mx, txt)
    /\ UNCHANGED <<lead, batchVars, jobVars>>

DoWhois ==
    /\ call.pc = "whois"
    /\ \E info \in WhoisAnswers : call' = StageWhois(call, info)
    /\ UNCHANGED <<lead, batchVars, jobVars>>

DoHoleheRun ==
    /\ call.pc = "holehe_run"
    /\ \E run \in Runs : call' = StageHoleheRun(call, run)
    /\ UNCHANGED <<lead, batchVars, jobVars>>

DoHoleheParse ==
    /\ call.pc = "holehe_parse"
    /\ call' = StageHoleheParse(call)
    /\ UNCHANGED <<lead, batchVars, jobVars>>

DoSocial ==
    /\ call.pc = "social"
    /\ \E http \in HttpOutcomes, raises \in BOOLEAN : call' = StageSocial(call, http, raises)
    /\ UNCHANGED <<lead, batchVars, jobVars>>

DoFinish ==
    /\ call.pc = "finish"
    /\ call' = StageFinish(call)
    /\ UNCHANGED <<lead, batchVars, jobVars>>

DoExcept ==
    /\ call.pc = "except"
    /\ call' = StageExcept(call)
    /\ UNCHANGED <<lead, batchVars, jobVars>>

DoExit ==
    /\ call.pc = "exit"
    /\ \E t \in ElapsedValues : call' = StageExit(call, t)
    /\ UNCHANGED <<lead, batchVars, jobVars>>

NextLead ==
    \/ DoEntry \/ DoEmail \/ DoDomain \/ DoDns \/ DoWhois \/ DoHoleheRun
    \/ DoHoleheParse \/ DoSocial \/ DoFinish \/ DoExcept \/ DoExit

SpecLead == InitLead /\ [][NextLead]_vars

\* ------------------------------------------- Spec: process_leads_parallel
\* The leads of a batch: lead i has id i and is of one of four kinds.
LeadKinds == {"good", "dead", "noat", "bare"}

LeadOf(kind, i) ==
    CASE kind = "good" -> FullLead(i, GoodEmail)
      [] kind = "dead" -> FullLead(i, GoodEmail)
      [] kind = "noat" -> FullLead(i, <<"a", "b">>)
      [] kind = "bare" -> BareLead(i, GoodEmail)

EnvOf(kind) == IF kind \in {"good", "bare"} THEN EnvGood ELSE EnvDead

NewFuture == [state |-> "PENDING", result |-> None, exception |-> ""]

\* The progress dict a caller hands to the driver for a batch of n leads;
\* the web service hands none (SpecJob).
NewProgress(n) == [total_leads |-> n, processed_leads |-> 0, progress_percentage |-> 0]

InitBatch ==
    /\ lead = FullLead(1, GoodEmail)
    /\ call = CallStart
    /\ \E n \in 0..MaxLeads : \E kinds \in [1..n -> LeadKinds] :
          /\ leads = [i \in 1..n |-> LeadOf(kinds[i], i)]
          /\ world = [i \in 1..n |-> EnvOf(kinds[i])]
          /\ invoked = [i \in 1..n |-> 0]
    /\ max_workers \in 0..MaxWorkers
    /\ pc = "start"
    /\ submitted = 0 /\ work_queue = <<>> /\ idle = 0
    /\ running = <<>> /\ futures = <<>> /\ waiter = FALSE /\ finished = <<>>
    /\ pending = {} /\ notified = <<>> /\ results = <<>>
    /\ finish_order = <<>> /\ report_files = <<>>
    /\ processing_status_ref = Some(NewProgress(Len(leads)))
    /\ JobIdle

\* Lines 385-395 of process_real_leads_production_parallel: the driver calls
\* process_leads_parallel unless the list of leads is empty.
DriverStart ==
    /\ pc = "start"
    /\ pc' = IF leads = <<>> THEN "driver_returned" ELSE "construct"
    /\ UNCHANGED <<leadVars, jobVars, report_files, finish_order, processing_status_ref, leads, world, max_workers,
                   submitted, work_queue, idle, running, futures, waiter, finished,
                   pending, notified, results, invoked>>

\* process_leads_parallel(leads, max_workers), called with any list.
RunnerCall ==
    /\ pc = "start"
    /\ pc' = "construct"
    /\ UNCHANGED <<leadVars, jobVars, report_files, finish_order, processing_status_ref, leads, world, max_workers,
                   submitted, work_queue, idle, running, futures, waiter, finished,
                   pending, notified, results, invoked>>

\* ThreadPoolExecutor.__init__: what leaves the constructor.
ExecutorInit(bound) == IF bound <= 0 THEN "ValueError" ELSE ""

\* Line 344: the executor is constructed.
Construct ==
    /\ pc = "construct"
    /\ pc' = IF ExecutorInit(max_workers) # "" THEN "rejected" ELSE "submit"
    /\ UNCHANGED <<leadVars, jobVars, report_files, finish_order, processing_status_ref, leads, world, max_workers,
                   submitted, work_queue, idle, running, futures, waiter, finished,
                   pending, notified, results, invoked>>

\* A pool that starts a thread for every submitted work item.
AdjustThreadCountUnbounded(sem, threads, bound) ==
    IF sem > 0 THEN [idle |-> sem - 1, threads |-> threads]
    ELSE [idle |-> sem, threads |-> Append(threads, 0)]

\* ThreadPoolExecutor._adjust_thread_count, called by submit: no thread is
\* started when the idle semaphore can be taken or max_workers threads exist.
AdjustThreadCount(sem, threads, bound) ==
    IF sem > 0 THEN [idle |-> sem - 1, threads |-> threads]
    ELSE IF Len(threads) < bound THEN [idle |-> sem, threads |-> Append(threads, 0)]
    ELSE [idle |-> sem, threads |-> threads]

\* Line 346, one iteration: executor.submit(enrich_real_lead, lead).
Submit ==
    /\ pc = "submit"
    /\ submitted < Len(leads)
    /\ LET adj == AdjustThreadCount(idle, running, max_workers)
       IN  /\ idle' = adj.idle
           /\ running' = adj.threads
    /\ submitted' = submitted + 1
    /\ futures' = Append(futures, NewFuture)
    /\ work_queue' = Append(work_queue, submitted + 1)
    /\ UNCHANGED <<leadVars, jobVars, report_files, finish_order, processing_status_ref, leads, world, max_workers, pc, waiter, finished,
                   pending, notified, results, invoked>>

\* The orders in which a set can be iterated.
Orders(S) == { o \in [1..Cardinality(S) -> S] : \A i, j \in DOMAIN o : i # j => o[i] # o[j] }

\* Line 349, the call of as_completed: the futures already finished are
\* yielded first, in the iteration order of a set; the waiter is installed on
\* the others.
AsCompleted ==
    /\ pc = "submit"
    /\ submitted = Len(leads)
    /\ LET done == {i \in 1..Len(futures) : futures[i].state = "FINISHED"}
       IN  /\ finished' \in Orders(done)
           /\ pending' = (1..Len(futures)) \ done
    /\ waiter' = TRUE
    /\ pc' = "collect"
    /\ UNCHANGED <<leadVars, jobVars, report_files, finish_order, processing_status_ref, leads, world, max_workers, submitted, work_queue, idle,
                   running, futures, notified, results, invoked>>

\* A synthetic result that takes the time of the failed call for its own.
SyntheticResultTimed(ld, exc) ==
    [lead_id |-> ld.id, email |-> ld.email, status |-> "error",
     error |-> Some(exc), processing_time |-> 1]

\* Lines 350-368: the body of the collection loop for one future.
SyntheticResult(ld, exc) ==
    [lead_id |-> ld.id, email |-> ld.email, status |-> "error",
     error |-> Some(exc), processing_time |-> 0]

\* A loop body that keeps one result per email address.
CollectOneByEmail(rs, ld, fut) ==
    LET r == IF fut.exception = "" THEN fut.result[1] ELSE SyntheticResult(ld, fut.exception)
    IN  IF \E k \in 1..Len(rs) : rs[k].email = r.email
        THEN [results |-> rs, raised |-> FALSE]
        ELSE [results |-> Append(rs, r), raised |-> FALSE]

CollectOne(rs, ld, fut) ==
    IF fut.exception = "" THEN [results |-> Append(rs, fut.result[1]), raised |-> FALSE]
    ELSE IF HasKeys(ld, {"id", "email"})
    THEN [results |-> Append(rs, SyntheticResult(ld, fut.exception)), raised |-> FALSE]
    ELSE [results |-> rs, raised |-> TRUE]

Collect ==
    /\ pc = "collect"
    /\ finished # <<>>
    /\ LET i == Head(finished)
           c == CollectOne(results, leads[i], futures[i])
       IN  /\ results' = c.results
           /\ pc' = IF c.raised THEN "raised" ELSE pc
    /\ finished' = Tail(finished)
    /\ UNCHANGED <<leadVars, jobVars, report_files, finish_order, processing_status_ref, leads, world, max_workers, submitted, work_queue, idle,
                   running, futures, waiter, pending, notified, invoked>>

\* A wake-up that loses the futures that finished since.
WakeLost ==
    /\ pc = "collect"
    /\ finished = <<>>
    /\ pending # {}
    /\ notified # <<>>
    /\ notified' = <<>>
    /\ UNCHANGED <<leadVars, jobVars, report_files, finish_order, processing_status_ref, leads, world, max_workers,
                   pc, submitted, work_queue, idle, running, futures, waiter, finished,
                   pending, results, invoked>>

\* as_completed, woken by the waiter's event: the futures that finished
\* since are yielded in the order in which they finished.
Wake ==
    /\ pc = "collect"
    /\ finished = <<>>
    /\ pending # {}
    /\ notified # <<>>
    /\ finished' = notified
    /\ notified' = <<>>
    /\ pending' = pending \ {notified[k] : k \in 1..Len(notified)}
    /\ UNCHANGED <<leadVars, jobVars, report_files, finish_order, processing_status_ref, leads, world, max_workers, pc, submitted, work_queue,
                   idle, running, futures, waiter, results, invoked>>

\* Line 370, after the with block has shut the executor down.
Return ==
    /\ pc = "collect"
    /\ finished = <<>>
    /\ pending = {}
    /\ \A w \in 1..Len(running) : running[w] = 0
    /\ pc' = "returned"
    /\ UNCHANGED <<leadVars, jobVars, report_files, finish_order, processing_status_ref, leads, world, max_workers, submitted, work_queue, idle,
                   running, futures, waiter, finished, pending, notified, results,
                   invoked>>

\* A worker that reads the next work item and leaves it in the queue.
TakeWorkPeek(q, threads, w) ==
    [queue |-> q, threads |-> [threads EXCEPT ![w] = Head(q)]]

\* ThreadPoolExecutor._worker: thread w takes the next work item.
TakeWork(q, threads, w) ==
    [queue |-> Tail(q), threads |-> [threads EXCEPT ![w] = Head(q)]]

WorkerStart(w) ==
    /\ running[w] = 0
    /\ work_queue # <<>>
    /\ LET t == TakeWork(work_queue, running, w)
       IN  /\ work_queue' = t.queue
           /\ running' = t.threads
    /\ futures' = [futures EXCEPT ![Head(work_queue)].state = "RUNNING"]
    /\ invoked' = [invoked EXCEPT ![Head(work_queue)] = @ + 1]
    /\ UNCHANGED <<leadVars, jobVars, report_files, finish_order, processing_status_ref, leads, world, max_workers, pc, submitted, idle, waiter,
                   finished, pending, notified, results>>

\* _WorkItem.run: the call returns or raises, and the future is set.
SetFuture(st) ==
    IF st.pc = "raised"
    THEN [state |-> "FINISHED", result |-> None, exception |-> st.exc]
    ELSE [state |-> "FINISHED", result |-> st.result, exception |-> ""]

\* A worker that marks the lead it has worked on.
WorkerFinishMarksLead(w) ==
    /\ running[w] # 0
    /\ \E t \in ElapsedValues :
          futures' = [futures EXCEPT ![running[w]] =
                         SetFuture(enrich_real_lead(leads[running[w]], world[running[w]], t))]
    /\ notified' = IF waiter THEN Append(notified, running[w]) ELSE notified
    /\ finish_order' = Append(finish_order, running[w])
    /\ running' = [running EXCEPT ![w] = 0]
    /\ idle' = idle + 1
    /\ leads' = [leads EXCEPT ![running[w]].country = "done"]
    /\ UNCHANGED <<leadVars, jobVars, report_files, processing_status_ref, world, max_workers, pc, submitted, work_queue,
                   waiter, finished, pending, results, invoked>>

WorkerFinish(w) ==
    /\ running[w] # 0
    /\ \E t \in ElapsedValues :
          futures' = [futures EXCEPT ![running[w]] =
                         SetFuture(enrich_real_lead(leads[running[w]], world[running[w]], t))]
    /\ notified' = IF waiter THEN Append(notified, running[w]) ELSE notified
    /\ finish_order' = Append(finish_order, running[w])
    /\ running' = [running EXCEPT ![w] = 0]
    /\ idle' = idle + 1
    /\ UNCHANGED <<leadVars, jobVars, report_files, processing_status_ref, leads, world, max_workers, pc, submitted, work_queue,
                   waiter, finished, pending, results, invoked>>

\* Lines 399 and 404-409: the progress dict after the batch; it is written
\* only when it is given and not empty.
UpdateProgress(ref, rs) ==
    LET completed_leads == SelectSeq(rs, LAMBDA r : r.status = "completed")
    IN  IF ref # None /\ Truthy(ref[1])
        THEN Some([processed_leads |-> Len(rs),
                   successful_leads |-> Len(completed_leads),
                   failed_leads |-> Len(rs) - Len(completed_leads),
                   progress_percentage |-> 100,
                   last_update |-> "now"] @@ ref[1])
        ELSE ref

\* The results whose status is not completed.
Failed(rs) == {k \in 1..Len(rs) : rs[k].status # "completed"}

\* The keys lines 447-451 read in every result.
DetailKeys == {"lead_id", "email", "company", "score", "status", "processing_time"}

\* Lines 424-438: what json.dump writes, without the times and the average.
ReportOf(rs, num_leads, workers) ==
    [num_leads |-> num_leads, max_workers |-> workers,
     total_leads |-> Len(rs),
     successful_leads |-> Len(SelectSeq(rs, LAMBDA r : r.status = "completed")),
     results |-> rs]

\* A driver that writes its report after the detail loop.
DriverTailReportLast(rs, ref, num_leads, workers) ==
    IF rs = <<>>
    THEN [exc |-> "ZeroDivisionError", ref |-> ref, returned |-> None, written |-> <<>>]
    ELSE IF \E k \in 1..Len(rs) : ~HasKeys(rs[k], DetailKeys)
    THEN [exc |-> "KeyError", ref |-> UpdateProgress(ref, rs), returned |-> None,
          written |-> <<>>]
    ELSE [exc |-> "", ref |-> UpdateProgress(ref, rs), returned |-> Some(rs),
          written |-> <<ReportOf(rs, num_leads, workers)>>]

\* Lines 397-459, the driver after process_leads_parallel returned rs: exc
\* is the exception that leaves the driver, "" for none; ref is the progress
\* dict, returned what the driver returns and written the report files it
\* wrote.
DriverTail(rs, ref, num_leads, workers) ==
    IF rs = <<>>
    THEN [exc |-> "ZeroDivisionError", ref |-> ref, returned |-> None, written |-> <<>>]
    ELSE IF \E k \in 1..Len(rs) : ~HasKeys(rs[k], DetailKeys)
    THEN [exc |-> "KeyError", ref |-> UpdateProgress(ref, rs), returned |-> None,
          written |-> <<ReportOf(rs, num_leads, workers)>>]
    ELSE [exc |-> "", ref |-> UpdateProgress(ref, rs), returned |-> Some(rs),
          written |-> <<ReportOf(rs, num_leads, workers)>>]

\* The driver, back from process_leads_parallel, runs to its end.
Report ==
    /\ pc = "returned"
    /\ leads # <<>>
    /\ LET t == DriverTail(results, processing_status_ref, Len(leads), max_workers)
       IN  /\ processing_status_ref' = t.ref
           /\ report_files' = report_files \o t.written
           /\ pc' = IF t.exc = "" THEN "driver_returned" ELSE "driver_raised"
    /\ UNCHANGED <<leadVars, jobVars, finish_order, leads, world, max_workers, submitted, work_queue,
                   idle, running, futures, waiter, finished, pending, notified,
                   results, invoked>>

Next ==
    \/ DriverStart \/ RunnerCall \/ Construct \/ Report
    \/ Submit \/ AsCompleted \/ Collect \/ Wake \/ Return
    \/ \E w \in 1..Len(running) : WorkerStart(w)
    \/ \E w \in 1..Len(running) : WorkerFinish(w)

Spec == InitBatch /\ [][Next]_vars

\* The thread that called process_leads_parallel.
MainThread ==
    \/ DriverStart \/ RunnerCall \/ Construct \/ Submit \/ AsCompleted
    \/ Collect \/ Wake \/ Return \/ Report

\* Thread w of the pool is in a call of enrich_real_lead: WorkerFinish(w) is
\* possible in these states and in no other.
Busy(w) == w \in 1..Len(running) /\ running[w] # 0

\* The calling thread and the threads of the pool are scheduled by the
\* operating system, and every probe has a timeout: a step of a thread that
\* stays possible is taken in the end.  The last conjunct is weak fairness
\* of WorkerFinish(w), its enabling condition written out.
FairSpec ==
    /\ Spec
    /\ WF_vars(MainThread)
    /\ \A w \in 1..MaxWorkers : WF_vars(w \in 1..Len(running) /\ WorkerStart(w))
    /\ \A w \in 1..MaxWorkers :
          []<>(~Busy(w)) \/ []<><<w \in 1..Len(running) /\ WorkerFinish(w)>>_vars

\* ------------------------------------------------------ SpecJob: main.py
\* get_leads_from_sandbox(limit): lead i of the generated sample, which has
\* every key and a well-formed email of its own.
SandboxLead(i) == FullLead(i, GoodEmail)

get_leads_from_sandbox(limit) == [i \in 1..limit |-> SandboxLead(i)]

\* process_leads_parallel(ls, workers) as one call, the futures completing
\* in the order of submission; ws[i] is what the outside world answers for
\* ls[i].
RECURSIVE CollectAll(_, _, _, _)
CollectAll(rs, ls, ws, i) ==
    IF i > Len(ls) THEN [exc |-> "", results |-> rs]
    ELSE LET c == CollectOne(rs, ls[i], SetFuture(enrich_real_lead(ls[i], ws[i], 0)))
         IN  IF c.raised THEN [exc |-> "KeyError", results |-> c.results]
             ELSE CollectAll(c.results, ls, ws, i + 1)

process_leads_parallel(ls, ws, workers) ==
    IF ExecutorInit(workers) # "" THEN [exc |-> ExecutorInit(workers), results |-> <<>>]
    ELSE CollectAll(<<>>, ls, ws, 1)

\* process_real_leads_production_parallel(num_leads, max_workers, batch_size,
\* pb_client, processing_status_ref) as one call; batch_size and pb_client
\* are not read by the function.
process_real_leads_production_parallel(num_leads, workers, batch_size, ref, env) ==
    LET ls == get_leads_from_sandbox(num_leads)
    IN  IF ls = <<>> THEN [exc |-> "", ref |-> ref, returned |-> None, written |-> <<>>]
        ELSE LET b == process_leads_parallel(ls, [i \in 1..Len(ls) |-> env], workers)
             IN  IF b.exc # ""
                 THEN [exc |-> b.exc, ref |-> ref, returned |-> None, written |-> <<>>]
                 ELSE DriverTail(b.results, ref, num_leads, workers)

\* The values of a key of the JSON body of a request.
Absent == [type |-> "absent"]
JsonInt(n) == [type |-> "int", val |-> n]
JsonStr == [type |-> "str"]

\* data.get(key, default)
Get(v, default) == IF v.type = "absent" THEN JsonInt(default) ELSE v

Bodies ==
    { [batch_size |-> Absent, max_workers |-> Absent],
      [batch_size |-> JsonInt(2), max_workers |-> JsonInt(1)],
      [batch_size |-> JsonInt(0), max_workers |-> JsonInt(1)],
      [batch_size |-> JsonInt(2), max_workers |-> JsonInt(0)],
      [batch_size |-> JsonInt(2), max_workers |-> JsonInt(0 - 1)],
      [batch_size |-> JsonStr, max_workers |-> Absent] }

\* int(time.time()) when a job is named.
Seconds == {1, 2}

Response(code, error) == [code |-> code, error |-> error]

\* start_processing without the validation of lines 169-172.
StartProcessingUnchecked(st, body, t) ==
    LET batch_size == Get(body.batch_size, DefaultBatchSize)
        workers == Get(body.max_workers, DefaultMaxWorkers)
    IN  IF batch_size.type = "str" \/ workers.type = "str"
        THEN [status |-> st, thread |-> None,
              response |-> Response(500, "Failed to start processing")]
        ELSE [status |-> [st EXCEPT !.current_job = Some(t),
                                    !.total_leads = batch_size.val,
                                    !.processed_leads = 0],
              thread |-> Some([batch_size |-> batch_size.val, max_workers |-> workers.val]),
              response |-> Response(200, "")]

\* Lines 163-197 of start_processing, st being processing_status: the dict
\* after them, the arguments of the thread started, None for no thread, and
\* the response.  Comparing a str with 0 raises TypeError.
StartProcessing(st, body, t) ==
    LET batch_size == Get(body.batch_size, DefaultBatchSize)
        workers == Get(body.max_workers, DefaultMaxWorkers)
        invalid == Response(400, "Invalid parameters: batch_size and max_workers must be positive")
        failed == Response(500, "Failed to start processing")
    IN  IF batch_size.type = "str" THEN [status |-> st, thread |-> None, response |-> failed]
        ELSE IF batch_size.val <= 0 THEN [status |-> st, thread |-> None, response |-> invalid]
        ELSE IF workers.type = "str" THEN [status |-> st, thread |-> None, response |-> failed]
        ELSE IF workers.val <= 0 THEN [status |-> st, thread |-> None, response |-> invalid]
        ELSE [status |-> [st EXCEPT !.current_job = Some(t),
                                    !.total_leads = batch_size.val,
                                    !.processed_leads = 0],
              thread |-> Some([batch_size |-> batch_size.val, max_workers |-> workers.val]),
              response |-> Response(200, "")]

\* threading.Thread(target=run_osint_processing, args=...) once started by
\* the handler of request r; driver is what the call of the driver came to:
\* its exception, the number of its results and of those completed.
NewThread(args, r) ==
    [pc |-> "started", batch_size |-> args.batch_size, max_workers |-> args.max_workers,
     request |-> r, driver |-> None]

InitJob ==
    /\ lead = FullLead(1, GoodEmail)
    /\ call = CallStart
    /\ BatchIdle
    /\ processing_status = NewStatus
    /\ requests = [r \in 1..MaxRequests |-> [pc |-> "new", body |-> None, response |-> None]]
    /\ job_threads = <<>>
    /\ served = None
    /\ pb = NewClient(FALSE)
    /\ export = NewExporter(FALSE, FALSE)

\* Lines 156-161 of start_processing: the request is refused while a job is
\* running or starting.
CheckBusy(r) ==
    /\ requests[r].pc = "new"
    /\ requests' = [requests EXCEPT ![r] =
          IF processing_status.status \in {"running", "starting"}
          THEN [pc |-> "done", body |-> None,
                response |-> Some(Response(400, "Processing already in progress"))]
          ELSE [pc |-> "checked", body |-> None, response |-> None]]
    /\ UNCHANGED <<leadVars, batchVars, pb, export, processing_status, job_threads, served>>

\* Lines 163-197 of start_processing.
StartJob(r) ==
    /\ requests[r].pc = "checked"
    /\ \E body \in Bodies, t \in Seconds :
          LET out == StartProcessing(processing_status, body, t)
          IN  /\ processing_status' = out.status
              /\ job_threads' = IF out.thread = None THEN job_threads
                                ELSE Append(job_threads, NewThread(out.thread[1], r))
              /\ requests' = [requests EXCEPT ![r] =
                                 [pc |-> "done", body |-> Some(body),
                                  response |-> Some(out.response)]]
    /\ UNCHANGED <<leadVars, batchVars, pb, export, served>>

\* Lines 60-62 of run_osint_processing.
JobStart(j) ==
    /\ job_threads[j].pc = "started"
    /\ processing_status' = [processing_status EXCEPT !.status = "running",
                                                      !.start_time = Some("now"),
                                                      !.errors = <<>>]
    /\ job_threads' = [job_threads EXCEPT ![j].pc = "running"]
    /\ UNCHANGED <<leadVars, batchVars, pb, export, requests, served>>

\* Line 424 of the driver when open() raises: the run d ends there, with an
\* OSError and no report.
OpenFails(d) ==
    IF d.written = <<>> THEN d
    ELSE [d EXCEPT !.exc = "OSError", !.returned = None, !.written = <<>>]

\* The working directory takes the report file, or not.
Disks == {"writable", "readonly"}

\* Lines 75-78 of run_osint_processing: the driver is called with batch_size
\* and max_workers, so that num_leads and processing_status_ref keep their
\* defaults.
JobDriver(j) ==
    /\ job_threads[j].pc = "running"
    /\ \E env \in {EnvGood, EnvDead} :
          \E run \in {process_real_leads_production_parallel(
                          DefaultNumLeads, job_threads[j].max_workers,
                          job_threads[j].batch_size, None, env)} :
          \E d \in {IF disk = "readonly" THEN OpenFails(run) ELSE run : disk \in Disks} :
             job_threads' = [job_threads EXCEPT
                 ![j].pc = "driver_done",
                 ![j].driver = Some([exc |-> d.exc,
                                     returned |-> d.returned # None,
                                     results |-> IF d.returned = None THEN 0
                                                 ELSE Len(d.returned[1]),
                                     failed |-> IF d.returned = None THEN 0
                                                ELSE Cardinality(Failed(d.returned[1]))])]
    /\ UNCHANGED <<leadVars, batchVars, pb, export, processing_status, requests, served>>

\* A job end without the handler of lines 91-94: the exception leaves
\* run_osint_processing and the dict stays as it was.
JobOutcomeUnhandled(st, exc) ==
    IF exc = ""
    THEN [st EXCEPT !.status = "completed", !.end_time = Some("now")]
    ELSE st

\* run_osint_processing from the return or the raise of the driver to its
\* end: lines 80-81, or the handler of lines 91-94.
JobOutcome(st, exc) ==
    IF exc = ""
    THEN [st EXCEPT !.status = "completed", !.end_time = Some("now")]
    ELSE [st EXCEPT !.status = "error", !.end_time = Some("now"),
                    !.errors = Append(@, exc)]

JobEnd(j) ==
    /\ job_threads[j].pc = "driver_done"
    /\ processing_status' = JobOutcome(processing_status, job_threads[j].driver[1].exc)
    /\ job_threads' = [job_threads EXCEPT ![j].pc = "finished"]
    /\ UNCHANGED <<leadVars, batchVars, pb, export, requests, served>>

\* Lines 146-149: GET /status answers with the dict as it is.
Status ==
    /\ served = None
    /\ served' = Some(processing_status)
    /\ UNCHANGED <<leadVars, batchVars, pb, export, processing_status, requests, job_threads>>

NextJob ==
    \/ \E r \in DOMAIN requests : CheckBusy(r)
    \/ \E r \in DOMAIN requests : StartJob(r)
    \/ \E j \in DOMAIN job_threads : JobStart(j)
    \/ \E j \in DOMAIN job_threads : JobDriver(j)
    \/ \E j \in DOMAIN job_threads : JobEnd(j)
    \/ Status

SpecJob == InitJob /\ [][NextJob]_vars

\* The threads of the jobs are scheduled: a started thread reaches line 60,
\* the driver it calls comes to its end (every call of enrich_real_lead
\* ends and the pool's threads are scheduled), and the thread then runs to
\* the end of run_osint_processing.  The requests are under no obligation.
JobThread(j) == j \in DOMAIN job_threads /\ (JobStart(j) \/ JobEnd(j))
InDriver(j) == j \in DOMAIN job_threads /\ job_threads[j].pc = "running"

FairSpecJob ==
    /\ SpecJob
    /\ \A j \in 1..MaxRequests : WF_vars(JobThread(j))
    /\ \A j \in 1..MaxRequests :
          []<>(~InDriver(j)) \/ []<><<j \in DOMAIN job_threads /\ JobDriver(j)>>_vars

\* ------------------------------------------------------------- the program
\* The web service, or a caller of the driver or of process_leads_parallel.
InitAll == InitBatch \/ InitJob

NextAll == Next \/ NextJob

SpecAll == InitAll /\ [][NextAll]_vars

\* ------------------------------------------- SpecStore: pocketbase_client.py
\* The tokens the server hands out.
Tokens == {"t1", "t2"}

\* What an authentication request comes to: a token of the server, a 200
\* response without a token, another status, or an exception (the request,
\* resp.json() or data.get raises).
AuthAnswers == Tokens \cup {"no_token", "refused", "error"}

\* f'Bearer {self.auth_token}'
Bearer(token) == <<"Bearer", token>>

\* Most records the server lists in one answer.
MaxRecords == 2

\* A record of osint_results, and a lead dict handed to the exporter; enrichment_json is what
\* _transform_lead_for_unified makes of that key: a JSON object, or a value
\* without .get (null, a JSON array).
ExportLead(n, json) == [type |-> "dict", id |-> n, enrichment_json |-> json]

\* The records of osint_results that hold enrichment data.
Records(k) == [n \in 1..k |-> ExportLead(n, "object")]

PostOps == {"_post", "create_lead", "create_osint_result", "update_processing_status"}
GetOps == {"_get"}
Ops == {"authenticate"} \cup PostOps \cup GetOps

\* A JSON object of the server: its keys 'id' and 'items', each present or
\* not.
JsonBodies(op) ==
    IF op \in PostOps
    THEN {[id |-> Some("rec1"), items |-> None], [id |-> None, items |-> None]}
    ELSE {[id |-> None, items |-> Some(Records(k))] : k \in 0..MaxRecords}
            \cup {[id |-> None, items |-> None]}

\* What a request of _post or _get comes to: an exception of the session, or
\* a response with a status and a body that is a JSON object or is not JSON.
SendAnswers(op) ==
    {[kind |-> "raise", status |-> 0, json |-> None]}
        \cup {[kind |-> "response", status |-> 200, json |-> Some(b)] : b \in JsonBodies(op)}
        \cup {[kind |-> "response", status |-> s, json |-> None] : s \in {200, 401, 403}}

\* resp.ok
Ok(answer) == answer.status < 400

\* The values of the dict handed to a writer: all of types json.dumps
\* accepts, or one of another type (a datetime, a set).
Payloads(op) == IF op \in PostOps THEN {"plain", "unserializable"} ELSE {"plain"}

\* A call begins: authenticate at its line 41, _post and _get at
\* ensure_authenticated, and so the writers after building their payload
\* with dict.get; create_osint_result calls json.dumps on the enrichment
\* data while building it (line 154), outside any try.
StartCall(c, op, data, caller) ==
    LET raises == op = "create_osint_result" /\ data = "unserializable"
    IN  [c EXCEPT !.op = op, !.data = data, !.caller = caller,
                  !.pc = IF raises THEN "raised"
                         ELSE IF op = "authenticate" THEN "auth_user" ELSE "ensure",
                  !.after = IF op = "authenticate" THEN "returned" ELSE "send",
                  !.before = [auth_token |-> c.auth_token, authorization |-> c.authorization],
                  !.auth_ret = None, !.granted = None, !.log = <<>>, !.answer = None,
                  !.ret = None,
                  !.raised = IF raises THEN Some("TypeError") ELSE None]

\* Lines 76-79: ensure_authenticated calls authenticate when there is no
\* token, and drops what it returns.
Ensure(c) ==
    IF c.auth_token = None
    THEN [c EXCEPT !.pc = "auth_user", !.granted = None,
                   !.before = [auth_token |-> c.auth_token, authorization |-> c.authorization]]
    ELSE [c EXCEPT !.pc = c.after]

\* Lines 49-53 and 64-68: the token is kept and put in the session's header.
AcceptTokenOnly(c, token) == [c EXCEPT !.auth_token = Some(token)]

Accept(c, token) ==
    [c EXCEPT !.auth_token = Some(token), !.authorization = Some(Bearer(token))]

\* authenticate returns b, to its caller or into ensure_authenticated.
AuthReturn(c, b) ==
    [c EXCEPT !.auth_ret = Some(b), !.pc = c.after,
              !.ret = IF c.op = "authenticate" THEN Some(b) ELSE @]

\* Lines 41-55: the attempt with the service user's credentials, skipped
\* when one of them is empty.
AuthUser(c, ans) ==
    IF ans = "skipped" THEN [c EXCEPT !.pc = "auth_admin"]
    ELSE IF ans \in Tokens
         THEN AuthReturn(Accept([c EXCEPT !.log = Append(@, "user"), !.granted = Some(ans)],
                                ans), TRUE)
         ELSE [c EXCEPT !.pc = "auth_admin", !.log = Append(@, "user")]

\* Lines 57-74: the attempt with the admin's credentials.
AuthAdmin(c, ans) ==
    IF ans \in Tokens
    THEN AuthReturn(Accept([c EXCEPT !.log = Append(@, "admin"), !.granted = Some(ans)],
                           ans), TRUE)
    ELSE AuthReturn([c EXCEPT !.log = Append(@, "admin")], FALSE)

\* Lines 102-109 and 122-130, with lines 133-172 for the three writers: what
\* the method returns after the last answer.  _post returns the JSON object
\* of an OK response and None otherwise; _get returns the 'items' of that
\* object, [] without them and [] otherwise; a writer returns the 'id' of
\* what _post returned, None without it.
LastAnswer(c, answer) ==
    LET json == IF answer.kind = "response" /\ Ok(answer) THEN answer.json ELSE None
        value == IF c.op \in GetOps
                 THEN Some(IF json = None \/ json[1].items = None THEN <<>> ELSE json[1].items[1])
                 ELSE IF c.op = "_post" THEN json
                 ELSE IF json = None THEN None ELSE json[1].id
    IN  [c EXCEPT !.pc = "returned", !.answer = Some(answer), !.ret = value,
                  !.log = Append(@, "send")]

\* Line 95: json.dumps(payload) raises inside the try of _post, before any
\* request is sent.
DumpFails(c) == [c EXCEPT !.pc = "returned", !.ret = None]

\* Lines 95-101 and 115-121: the first request; a 401 clears the token and
\* the header and authenticates again before the second request.
FirstSendRetryDenied(c, answer) ==
    IF answer.kind = "response" /\ answer.status \in {401, 403}
    THEN [c EXCEPT !.auth_token = None, !.authorization = None,
                   !.pc = "ensure", !.after = "resend", !.answer = Some(answer),
                   !.log = @ \o <<"send", "clear">>]
    ELSE LastAnswer(c, answer)

FirstSend(c, answer) ==
    IF answer.kind = "response" /\ answer.status = 401
    THEN [c EXCEPT !.auth_token = None, !.authorization = None,
                   !.pc = "ensure", !.after = "resend", !.answer = Some(answer),
                   !.log = @ \o <<"send", "clear">>]
    ELSE LastAnswer(c, answer)

\* Line 101 and line 121: the second request; its answer is the last.
SecondSend(c, answer) == LastAnswer(c, answer)

storeRest == <<leadVars, batchVars, processing_status, requests, job_threads, served>>

\* A method of the client is called; the client is not used by two threads
\* at once here.
PbCall(op) ==
    /\ pb.pc \in {"idle", "returned", "raised"}
    /\ export.pc = "idle"
    /\ \E data \in Payloads(op) : pb' = StartCall(pb, op, data, "user")
    /\ UNCHANGED <<storeRest, export>>

PbEnsure ==
    /\ pb.pc = "ensure"
    /\ pb' = Ensure(pb)
    /\ UNCHANGED <<storeRest, export>>

PbAuthUser ==
    /\ pb.pc = "auth_user"
    /\ \E ans \in (IF pb.has_user THEN AuthAnswers ELSE {"skipped"}) :
          pb' = AuthUser(pb, ans)
    /\ UNCHANGED <<storeRest, export>>

PbAuthAdmin ==
    /\ pb.pc = "auth_admin"
    /\ \E ans \in AuthAnswers : pb' = AuthAdmin(pb, ans)
    /\ UNCHANGED <<storeRest, export>>

PbSend ==
    /\ pb.pc = "send"
    /\ IF pb.data = "unserializable"
       THEN pb' = DumpFails(pb)
       ELSE \E answer \in SendAnswers(pb.op) : pb' = FirstSend(pb, answer)
    /\ UNCHANGED <<storeRest, export>>

PbResend ==
    /\ pb.pc = "resend"
    /\ \E answer \in SendAnswers(pb.op) : pb' = SecondSend(pb, answer)
    /\ UNCHANGED <<storeRest, export>>

\* -------------------------------------------------- SpecStore: exporter.py
\* Line 62 of exporter.py: batch_size = 100.
ExportBatchSize == 100

\* The lists of leads handed to export_to_unified_leads: of n leads, those at
\* the positions of bad without a JSON object.
ExportInputs ==
    { [n \in 1..size |-> ExportLead(n, IF n \in bad THEN "null" ELSE "object")] :
        size \in {0, 1, 2, ExportBatchSize, ExportBatchSize + 1, 2 * ExportBatchSize + 1},
        bad \in {{}, {1}, {2, ExportBatchSize + 1}, 1..ExportBatchSize} }

\* Lines 112-208: _transform_lead_for_unified returns None when the lead's
\* enrichment has no .get, and a dict keeping the lead's id otherwise.
_transform_lead_for_unified(a_lead) ==
    IF a_lead.enrichment_json = "object" THEN Some([original_id |-> a_lead.id]) ELSE None

\* What the POST of a batch comes to: a status, or an exception.
BatchAnswers == {"200", "201", "500", "raise"}

\* Lines 40-59: export_to_unified_leads begins; without API key it returns
\* at once.
ExportBegin(e, op, ls) ==
    IF ~e.api_key
    THEN [e EXCEPT !.op = op, !.pc = "returned", !.leads = ls, !.i = 0,
                   !.exported = 0, !.failed = 0, !.errors = <<>>, !.posts = <<>>,
                   !.result = Some([success |-> FALSE,
                                    error |-> Some("No Supabase API key configured"),
                                    exported |-> 0, failed |-> 0, total |-> None,
                                    errors |-> None])]
    ELSE [e EXCEPT !.op = op, !.pc = "batch", !.leads = ls, !.i = 0,
                   !.exported = 0, !.failed = 0, !.errors = <<>>, !.posts = <<>>,
                   !.result = None]

\* Lines 63-73: the batch that starts at i, transformed.
TransformedBatch(ls, i) ==
    LET batch == SubSeq(ls, i + 1, Min(i + ExportBatchSize, Len(ls)))
    IN  SelectSeq(batch, LAMBDA a_lead : _transform_lead_for_unified(a_lead) # None)

\* Lines 63-98: one turn of the loop over the batches.
BatchTurnStopOnFailure(e, answer) ==
    LET transformed_batch == TransformedBatch(e.leads, e.i)
        n == Len(transformed_batch)
    IN  IF n = 0 THEN [e EXCEPT !.i = @ + ExportBatchSize]
        ELSE IF answer \in {"200", "201"}
        THEN [e EXCEPT !.i = @ + ExportBatchSize, !.exported = @ + n,
                       !.posts = Append(@, n)]
        ELSE [e EXCEPT !.i = Len(e.leads), !.failed = @ + n, !.posts = Append(@, n),
                       !.errors = Append(@, answer)]

BatchTurn(e, answer) ==
    LET transformed_batch == TransformedBatch(e.leads, e.i)
        n == Len(transformed_batch)
    IN  IF n = 0 THEN [e EXCEPT !.i = @ + ExportBatchSize]
        ELSE IF answer \in {"200", "201"}
        THEN [e EXCEPT !.i = @ + ExportBatchSize, !.exported = @ + n,
                       !.posts = Append(@, n)]
        ELSE [e EXCEPT !.i = @ + ExportBatchSize, !.failed = @ + n,
                       !.posts = Append(@, n), !.errors = Append(@, answer)]

\* Lines 100-110: the dict export_to_unified_leads returns.
ExportResult(e) ==
    [success |-> e.exported > 0, error |-> None, exported |-> e.exported,
     failed |-> e.failed, total |-> Some(Len(e.leads)),
     errors |-> IF e.errors = <<>> THEN None
                ELSE Some(SubSeq(e.errors, 1, Min(5, Len(e.errors))))]

\* What pb_client._get returns: a list (lines 124, 127 and 130 of
\* pocketbase_client.py).
PyList(elems) == [type |-> "list", elems |-> elems]

\* key in value: for a list, is the str one of its elements (no dict equals
\* a str); for a dict, is it one of its keys.
In(key, value) ==
    IF value.type = "list"
    THEN \E n \in DOMAIN value.elems :
            value.elems[n].type = "str" /\ value.elems[n].value = key
    ELSE key \in value.keys

\* bool(value)
NonEmpty(value) == IF value.type = "list" THEN value.elems # <<>> ELSE value.keys # {}

\* Lines 298-338: _fetch_enriched_leads, from what pb_client._get returned:
\* the leads of response['items'] when response is truthy and has 'items'
\* in it, [] otherwise and when an exception is caught (a list has no str
\* index).
_fetch_enriched_leads(response) ==
    IF ~(NonEmpty(response) /\ In("items", response)) THEN <<>>
    ELSE IF response.type = "list" THEN <<>>
    ELSE [n \in DOMAIN response.items |->
             ExportLead(response.items[n].id, response.items[n].enrichment_json)]

\* Lines 236-241: the dict export_completed_enrichments starts from.
NewResults == [fetched |-> 0, supabase |-> [exported |-> 0, failed |-> 0], error |-> None]

\* export_to_unified_leads is called with a list of leads.
ExportCall ==
    /\ export.pc \in {"idle", "returned"}
    /\ pb.pc = "idle"
    /\ \E leads_in \in ExportInputs :
          export' = ExportBegin([export EXCEPT !.results = None, !.enriched_leads = None],
                                "export_to_unified_leads", leads_in)
    /\ UNCHANGED <<storeRest, pb>>

ExportBatch ==
    /\ export.pc = "batch"
    /\ export.i < Len(export.leads)
    /\ \E answer \in BatchAnswers : export' = BatchTurn(export, answer)
    /\ UNCHANGED <<storeRest, pb>>

\* The loop is over: export_to_unified_leads returns, and when called by
\* export_completed_enrichments, that one returns too (lines 257-258 and
\* 286).
ExportReturn ==
    /\ export.pc = "batch"
    /\ export.i >= Len(export.leads)
    /\ export' = [export EXCEPT
          !.pc = "returned", !.result = Some(ExportResult(export)),
          !.results = IF export.op = "export_completed_enrichments"
                      THEN Some([@[1] EXCEPT !.supabase =
                              [exported |-> export.exported, failed |-> export.failed]])
                      ELSE @]
    /\ UNCHANGED <<storeRest, pb>>

\* Lines 243-245 and 298-314: export_completed_enrichments is called, on a
\* client as main.py leaves it (built, authenticate called); without client
\* _fetch_enriched_leads returns [] at once.
CompletedCall ==
    /\ export.pc \in {"idle", "returned"}
    /\ pb.pc = "idle" \/ (pb.pc = "returned" /\ pb.op = "authenticate")
    /\ IF export.pb_client
       THEN /\ export' = [export EXCEPT !.op = "export_completed_enrichments",
                                        !.pc = "fetching", !.results = Some(NewResults),
                                        !.enriched_leads = None, !.result = None,
                                        !.leads = <<>>, !.i = 0, !.exported = 0,
                                        !.failed = 0, !.errors = <<>>, !.posts = <<>>]
            /\ pb' = StartCall(pb, "_get", "plain", "export")
       ELSE /\ export' = [export EXCEPT !.op = "export_completed_enrichments",
                                        !.pc = "returned", !.results = Some(NewResults),
                                        !.enriched_leads = Some(<<>>), !.result = None,
                                        !.leads = <<>>, !.i = 0, !.exported = 0,
                                        !.failed = 0, !.errors = <<>>, !.posts = <<>>]
            /\ pb' = pb
    /\ UNCHANGED storeRest

\* Lines 245-272: _get has returned; the leads fetched are counted and, when
\* there are some and there is an API key, handed to export_to_unified_leads.
CompletedFetched ==
    /\ export.pc = "fetching"
    /\ pb.pc = "returned"
    /\ LET enriched_leads == _fetch_enriched_leads(PyList(pb.ret[1]))
           fetched == [export EXCEPT
                          !.enriched_leads = Some(enriched_leads),
                          !.results = Some([@[1] EXCEPT !.fetched = Len(enriched_leads)])]
       IN  export' = IF enriched_leads = <<>> \/ ~export.api_key
                     THEN [fetched EXCEPT !.pc = "returned"]
                     ELSE ExportBegin(fetched, "export_completed_enrichments", enriched_leads)
    /\ UNCHANGED <<storeRest, pb>>

InitStore ==
    /\ lead = FullLead(1, GoodEmail)
    /\ call = CallStart
    /\ BatchIdle
    /\ processing_status = NewStatus
    /\ requests = <<>>
    /\ job_threads = <<>>
    /\ served = None
    /\ \E has_user \in BOOLEAN : pb = NewClient(has_user)
    /\ \E has_client \in BOOLEAN, has_key \in BOOLEAN : export = NewExporter(has_client, has_key)

NextStore ==
    \/ \E op \in Ops : PbCall(op)
    \/ PbEnsure
    \/ PbAuthUser
    \/ PbAuthAdmin
    \/ PbSend
    \/ PbResend
    \/ ExportCall
    \/ ExportBatch
    \/ ExportReturn
    \/ CompletedCall
    \/ CompletedFetched

SpecStore == InitStore /\ [][NextStore]_vars

\* ------------------------------------------------- claims: enrich_real_lead
AllKeys == {"id", "email", "company", "country"}
Returned == call.pc = "returned"
Result == call.result[1]
Data == call.result[1].enrichment_data

\* C1: the result enrich_real_lead returns has an integer score between 0
\* and 100, whether its status is completed or error.
C1_ScoreInRange ==
    Returned => /\ Result.score \in 0..100
                /\ Result.status \in {"completed", "error"}

\* A completed result with the highest score.
C1_Witness == Returned /\ Result.status = "completed" /\ Result.score = 100

\* Every probe of the call failed or was unavailable.
AllProbesFailed ==
    /\ Data.email_valid = Some(FALSE)
    /\ call.resolved = Some([mx |-> FALSE, txt |-> FALSE])
    /\ Data.whois_info = None
    /\ call.missing = Len(holehe_paths)
    /\ call.trace = <<"email", "dns", "whois", "holehe", "social">>
    /\ Data.social_media = None

\* C2: when every probe fails or is unavailable, the result has status
\* completed and score 0.
C2_AllFailedScoresZero ==
    (Returned /\ AllProbesFailed) => (Result.status = "completed" /\ Result.score = 0)

\* The email is a string without '@'.
NoAt(e) == IsStr(e) /\ \A k \in 1..Len(e) : e[k] # "@"

\* C3: for a lead whose email contains no '@', no network probe is ever
\* invoked, email_valid is recorded as false and stage 1 adds 0 to the score.
C3_NoAtNoProbe ==
    NoAt(lead.email) =>
        /\ call.probes = {}
        /\ call.pc \in {"domain", "except", "exit", "returned"} =>
              (Data.email_valid = Some(FALSE) /\ Result.score = 0)

\* The call for a lead without '@' has returned.
C3_Witness == Returned /\ NoAt(lead.email) /\ Data.email_valid = Some(FALSE)

\* The sum of the credits the enrichment data of a result accounts for.
CreditSum(d) ==
    (IF d.email_valid = Some(TRUE) THEN 20 ELSE 0)
    + (IF d.dns_info # None THEN 15 ELSE 0)
    + (IF d.whois_info # None THEN 15 ELSE 0)
    + (IF d.holehe_accounts # None THEN Min(2 * Len(d.holehe_accounts[1]), 30) ELSE 0)
    + (IF d.social_media # None THEN 20 ELSE 0)

\* MX success, registration success, 3 accounts found and one social hit.
Scenario76 ==
    /\ Data.email_valid = Some(TRUE)
    /\ call.resolved # None /\ call.resolved[1].mx
    /\ Data.whois_info # None
    /\ Data.holehe_accounts # None /\ Len(Data.holehe_accounts[1]) = 3
    /\ Data.social_media # None /\ Len(Data.social_media[1].Found) = 1

\* C4: the score of a completed result is the sum of the stage credits (20,
\* 15, 15, min(2 * accounts, 30), 20) clamped to [0, 100]; in the scenario
\* the score is 76 and the status completed.
C4_ScoreIsCreditSum ==
    Returned =>
        /\ Result.status = "completed" => Result.score = Min(CreditSum(Data), 100)
        /\ Scenario76 => (Result.score = 76 /\ Result.status = "completed")

C4_Witness == Returned /\ Scenario76

\* The account-discovery executable exited with code 0 and its output is
\* about to be parsed.
ParsingOutput ==
    call.pc = "holehe_parse" /\ call.hr # None /\ call.hr[1].returncode = 0

\* C5: when the executable exits successfully and n lines of its output
\* start with '[+]', the stage adds min(2 * n, 30) to the score and
\* holehe_accounts holds n entries.
C5_CreditPerMarkedLine ==
    [][ParsingOutput =>
          LET n == MarkedLines(call.hr[1].stdout)
          IN  /\ call'.result[1].score = call.result[1].score + Min(2 * n, 30)
              /\ call'.result[1].enrichment_data.holehe_accounts # None
              /\ Len(call'.result[1].enrichment_data.holehe_accounts[1]) = n]_vars

\* C5, amended: n counts the lines that start with '[+]' once the white
\* space at both ends of the whole output is stripped.
C5_CreditPerStrippedLine ==
    [][ParsingOutput =>
          LET n == MarkedLines(StripSplit(call.hr[1].stdout))
          IN  /\ call'.result[1].score = call.result[1].score + Min(2 * n, 30)
              /\ call'.result[1].enrichment_data.holehe_accounts # None
              /\ Len(call'.result[1].enrichment_data.holehe_accounts[1]) = n]_vars

\* Twenty accounts were parsed from the output.
C5_Witness ==
    /\ call.pc = "social"
    /\ Data.holehe_accounts # None
    /\ Len(Data.holehe_accounts[1]) = 20

\* C6: for a lead that carries id, email, company and country the call never
\* raises; an exception that reaches the outer handler ends as status error
\* with the exception's message in the error field, and the call returns.
C6_NeverRaises ==
    /\ [](HasKeys(lead, AllKeys) =>
            /\ call.pc # "raised"
            /\ call.exc # "" => call.pc = "except"
            /\ (Returned /\ Result.error # None) => Result.status = "error")
    /\ [][(HasKeys(lead, AllKeys) /\ call.pc = "except") =>
            /\ call'.pc = "exit"
            /\ call'.result[1].status = "error"
            /\ call'.result[1].error = Some(call.exc)]_vars

\* A call for a complete lead returned a result with status error.
C6_Witness ==
    /\ HasKeys(lead, AllKeys)
    /\ Returned
    /\ Result.status = "error"
    /\ Result.error = Some("IndexError")

\* ------------------------------------------- claims: process_leads_parallel
BatchReturned == pc = "returned"
LeadIndex == 1..Len(leads)

\* The positions of the result list that belong to lead i.
ResultsOf(i) == {k \in 1..Len(results) : results[k].lead_id = leads[i].id}

\* C7: when process_leads_parallel returns, its list has one entry per
\* submitted lead, every lead id occurs in exactly one entry, and
\* enrich_real_lead was called exactly once for each lead; no lead is ever
\* run twice.
C7_OneResultPerLead ==
    /\ \A i \in LeadIndex : invoked[i] <= 1
    /\ BatchReturned =>
          /\ Len(results) = Len(leads)
          /\ \A i \in LeadIndex : Cardinality(ResultsOf(i)) = 1 /\ invoked[i] = 1

\* A batch of two leads returned, on fewer workers than leads.
C7_Witness == BatchReturned /\ Len(leads) = 2 /\ max_workers = 1

\* The call for lead i raised.
Escaped(i) == futures[i].state = "FINISHED" /\ futures[i].exception # ""

\* C8: if the call for one lead raises out of enrich_real_lead, the list
\* gets for that lead a result with its lead_id, its email, status error,
\* the exception's message and processing_time 0, the batch does not raise,
\* and the results of the other leads are collected as returned.
C8_SyntheticResult ==
    /\ pc # "raised"
    /\ BatchReturned =>
          \A i \in LeadIndex :
             IF Escaped(i)
             THEN \E k \in 1..Len(results) :
                     results[k] = [lead_id |-> leads[i].id, email |-> leads[i].email,
                                   status |-> "error", error |-> Some(futures[i].exception),
                                   processing_time |-> 0]
             ELSE \E k \in 1..Len(results) : results[k] = futures[i].result[1]

\* A batch returned in which one call raised and another returned.
C8_Witness ==
    /\ BatchReturned
    /\ \E i, j \in LeadIndex : Escaped(i) /\ ~Escaped(j)

\* A result without its timestamp and processing_time.
Core(r) ==
    [lead_id |-> r.lead_id, status |-> r.status, error |-> r.error,
     score |-> IF "score" \in DOMAIN r THEN Some(r.score) ELSE None,
     enrichment_data |-> IF "enrichment_data" \in DOMAIN r THEN Some(r.enrichment_data) ELSE None]

\* What one worker makes of the batch: the leads one after the other, in the
\* order of submission.
Sequential ==
    [i \in LeadIndex |->
        CollectOne(<<>>, leads[i],
                   SetFuture(enrich_real_lead(leads[i], world[i], 0))).results[1]]

\* C9: whatever the number of workers, from 1 to the number of leads, the
\* returned results are, as an unordered collection and leaving timestamp
\* and processing_time aside, those of the run on one worker.
C9_SameResultsAnyWorkers ==
    BatchReturned =>
        /\ Len(results) = Len(leads)
        /\ \A i \in LeadIndex :
              Cardinality({k \in 1..Len(results) : Core(results[k]) = Core(Sequential[i])})
              = Cardinality({j \in LeadIndex : Core(Sequential[j]) = Core(Sequential[i])})

\* As many workers as leads, and the results not in the order of submission.
C9_Witness ==
    /\ BatchReturned
    /\ Len(leads) = 2 /\ max_workers = 2
    /\ results[1].lead_id = leads[2].id

\* The calls of enrich_real_lead in progress.
Executing == {i \in 1..Len(futures) : futures[i].state = "RUNNING"}

\* C10: at most max_workers calls execute at any moment, each on a thread of
\* its own, and a thread leaves a call only when the call is finished.
C10_BoundedWorkers ==
    /\ [](/\ Cardinality(Executing) <= max_workers
          /\ Len(running) <= max_workers
          /\ \A i \in Executing : Cardinality({w \in 1..Len(running) : running[w] = i}) = 1
          /\ \A w \in 1..Len(running) : running[w] # 0 => running[w] \in Executing)
    /\ [][\A w \in 1..Len(running) :
             (running[w] # 0 /\ running'[w] # running[w]) =>
                 (running'[w] = 0 /\ futures'[running[w]].state = "FINISHED")]_vars

\* Every worker is busy and a lead waits in the queue.
C10_Witness ==
    /\ Cardinality(Executing) = max_workers
    /\ work_queue # <<>>

\* ---------------------------------------------- claims: driver and service
ProgressKeys == {"processed_leads", "failed_leads", "successful_leads", "progress_percentage"}

\* C11: after the driver finished a batch of N leads of which k do not have
\* the status completed, the dict GET /status serves has processed_leads N,
\* failed_leads k, successful_leads N - k and progress_percentage 100.
C11_ProgressAfterBatch ==
    \A j \in DOMAIN job_threads :
        ( /\ Len(job_threads) = 1
          /\ job_threads[j].pc = "finished"
          /\ job_threads[j].driver[1].returned
          /\ served = Some(processing_status) ) =>
            LET N == job_threads[j].driver[1].results
                k == job_threads[j].driver[1].failed
            IN  /\ HasKeys(served[1], ProgressKeys)
                /\ served[1].processed_leads = N
                /\ served[1].failed_leads = k
                /\ served[1].successful_leads = N - k
                /\ served[1].progress_percentage = 100

\* C12: while the batch runs, the processed count of the progress dict is
\* the number of results collected so far, and its percentage is that count
\* over the number of leads.
C12_LiveProgress ==
    (pc = "collect" /\ processing_status_ref # None) =>
        /\ processing_status_ref[1].processed_leads = Len(results)
        /\ processing_status_ref[1].progress_percentage * Len(leads) = Len(results) * 100

\* The job threads started and not finished.
ExecutingJobs == {j \in DOMAIN job_threads : job_threads[j].pc # "finished"}

\* C13: under every interleaving of the request handlers and the job
\* threads at most one job executes at any time: no thread is started for a
\* request while the thread of a request accepted before it has not
\* finished.
C13_OneJobAtATime == Cardinality(ExecutingJobs) <= 1

\* Every lead of the batch has a result with status completed or error.
AllSettled ==
    \A i \in LeadIndex :
        \E k \in 1..Len(results) :
            results[k].lead_id = leads[i].id /\ results[k].status \in {"completed", "error"}

\* C14: a batch that started ends: in the end process_leads_parallel
\* returns with a result of status completed or error for every submitted
\* lead; a call in progress ends finished, and no work item leaves the queue
\* but into a worker.
C14_BatchTerminates ==
    /\ (pc = "submit") ~> (BatchReturned /\ AllSettled)
    /\ [][\A i \in 1..Len(futures) :
             /\ futures[i].state = "RUNNING" => futures'[i].state \in {"RUNNING", "FINISHED"}
             /\ futures[i].state = "FINISHED" => futures'[i] = futures[i]]_vars

\* A batch returned with a completed result and an error result.
C14_Witness ==
    /\ BatchReturned
    /\ AllSettled
    /\ \E a, b \in 1..Len(results) : results[a].status = "completed" /\ results[b].status = "error"

\* The five probe stages, in the order of the calls.
ProbeStages == <<"email", "dns", "whois", "holehe", "social">>

\* C15: an exception inside a probe stage costs that stage's credit alone:
\* the later stages run and the status is completed; the status is error
\* only for an exception of the orchestrator's own bookkeeping, which is the
\* IndexError of line 235.
C15_ProbeFailureIsolated ==
    /\ call.pc = "except" => call.exc = "IndexError"
    /\ Returned =>
          /\ Result.status = "error" => Result.error = Some("IndexError")
          /\ Result.status = "completed" => call.trace = ProbeStages

\* What run_osint_processing makes of the driver's end.
DriverExc == IF pc = "driver_raised" THEN "KeyError" ELSE ""

NotPositive(body) ==
    \/ body.batch_size.type = "int" /\ body.batch_size.val <= 0
    \/ body.max_workers.type = "int" /\ body.max_workers.val <= 0

\* C17: start_processing answers a request whose batch_size or max_workers
\* is not positive with an error and starts no thread; the driver and the
\* runner call enrich_real_lead for no lead, and start no worker, when the
\* list of leads is empty or max_workers is not positive.
C17_RejectedBeforeWork ==
    /\ \A r \in DOMAIN requests :
          (requests[r].body # None /\ NotPositive(requests[r].body[1])) =>
              /\ requests[r].response[1].code # 200
              /\ requests[r].response[1].error # ""
              /\ \A j \in DOMAIN job_threads : job_threads[j].request # r
    /\ \A j \in DOMAIN job_threads :
          job_threads[j].batch_size > 0 /\ job_threads[j].max_workers > 0
    /\ (leads = <<>> \/ max_workers <= 0) =>
          /\ \A i \in LeadIndex : invoked[i] = 0
          /\ running = <<>>
          /\ results = <<>>

\* A request for a batch of size 0 was answered.
C17_Witness ==
    \E r \in DOMAIN requests :
        /\ requests[r].pc = "done"
        /\ requests[r].body # None
        /\ requests[r].body[1].batch_size = JsonInt(0)
        /\ requests[r].response[1].code = 400

\* The key of enrichment_data a probe stage writes.
StageKey(stage) ==
    CASE stage = "email" -> "email_valid"
      [] stage = "dns" -> "dns_info"
      [] stage = "whois" -> "whois_info"
      [] stage = "holehe" -> "holehe_accounts"
      [] stage = "social" -> "social_media"

\* C18: in a returned result every probe stage that was attempted has an
\* entry in enrichment_data, whatever the stage came to.
C18_AttemptedStagesRecorded ==
    Returned =>
        \A k \in 1..Len(call.trace) : Data[StageKey(call.trace[k])] # None

\* Calls i and j are calls for the same lead, the outside world answering
\* the same.
SameCall(i, j) ==
    /\ world[i] = world[j]
    /\ [leads[i] EXCEPT !.id = 0] = [leads[j] EXCEPT !.id = 0]

Finished(i) == futures[i].state = "FINISHED"

C20_DnsCreditBinary ==
    [][call.pc = "dns" =>
          call'.result[1].score = call.result[1].score
              + (IF call'.resolved[1].mx \/ call'.resolved[1].txt THEN 15 ELSE 0)]_vars

\* The syntax check of validate_email succeeds for the lead's email.
SyntaxOk == IsStr(lead.email) /\ RegexMatch(lead.email)

\* C21: the email-validation stage adds 20 when the syntax check and the MX
\* lookup both succeed and 0 in every other case; the MX lookup is made only
\* after the syntax check succeeded; and the stage records email_valid true
\* with the 20 points, false when a check failed.
C21_EmailCreditAllOrNothing ==
    [][call.pc = "email" =>
          LET both == SyntaxOk /\ call'.mx_ok = Some(TRUE)
          IN  /\ call'.result[1].score = call.result[1].score + (IF both THEN 20 ELSE 0)
              /\ ~SyntaxOk => call'.mx_ok = None /\ "validate_mx" \notin call'.probes
              /\ SyntaxOk => call'.mx_ok # None
              /\ call'.pc = "domain" =>
                    call'.result[1].enrichment_data.email_valid = Some(both)]_vars

\* The syntax check passed, the MX lookup failed, and the stage is over
\* without credit.
C21_Witness ==
    /\ call.pc = "domain"
    /\ SyntaxOk /\ call.mx_ok = Some(FALSE)
    /\ Data.email_valid = Some(FALSE) /\ Result.score = 0

\* The candidate invoked in this step exited with code 0.
ExitedZero == call'.hr # None /\ call'.hr[1].returncode = 0 /\ call'.hr[1].path = call.path

\* C22: the output parsed is that of the first candidate of holehe_paths
\* that exists and exits with code 0, whatever the candidates before it did.
\* Every candidate answers on its own, so this says: a candidate that exits
\* with 0 ends the loop and is the one parsed, and a candidate that is
\* missing, exits with another code or times out is followed by the next
\* candidate, which may be the one that exits with 0.
C22_FirstSuccessfulCandidate ==
    [][call.pc = "holehe_run" =>
          IF ExitedZero
          THEN call'.pc = "holehe_parse"
          ELSE call.path < Len(holehe_paths) =>
                  call'.pc = "holehe_run" /\ call'.path = call.path + 1]_vars

\* The candidate invoked in this step neither was missing nor returned: its
\* subprocess.run raised TimeoutExpired (or another error).
TimedOut ==
    /\ call.pc = "holehe_run"
    /\ call'.missing = call.missing
    /\ ~(call'.hr # None /\ call'.hr[1].path = call.path)

\* The loop is over and every candidate was missing.
AbsentEverywhere == call.pc = "holehe_parse" /\ call.missing = Len(holehe_paths)

\* C23: a timeout of the account-discovery executable, and its absence on
\* every candidate path, add nothing to the score, write no holehe_accounts
\* and leave the status alone; the next step is the social stage, which
\* cannot end in the outer handler, so that the result is completed.
C23_TimeoutOrAbsenceNoError ==
    [][/\ (TimedOut \/ AbsentEverywhere) =>
             /\ call'.result[1].score = call.result[1].score
             /\ call'.result[1].enrichment_data.holehe_accounts = None
             /\ call'.result[1].status = "processing"
             /\ call'.exc = ""
             /\ call'.pc = "social"
       /\ call.pc = "social" =>
             /\ call'.trace = Append(call.trace, "social")
             /\ call'.pc = "finish"
       /\ call.pc = "finish" =>
             call'.result[1].status = "completed" /\ call'.pc = "exit"]_vars

\* A call returned after every candidate was missing: no account credit, no
\* holehe_accounts, the social stage ran and the status is completed.
C23_Witness ==
    /\ Returned
    /\ call.missing = Len(holehe_paths)
    /\ Data.holehe_accounts = None
    /\ call.trace = ProbeStages
    /\ Result.status = "completed"

\* Python's `x or "Unknown"` for an optional field.
Rendered(field) == IF field # None THEN field[1] ELSE "Unknown"

\* C24: the WHOIS stage adds 15 when whois.whois answered, which is when
\* domain_whois returns a record without the key 'Error', and 0 when it
\* raised; the record stored renders every absent registration field as
\* 'Unknown', and absent fields leave the credit in place.
C24_WhoisCredit ==
    [][call.pc = "whois" =>
          LET info == call'.whois_answer[1]
              stored == call'.result[1].enrichment_data.whois_info
          IN  /\ (info # None) <=> ("Error" \notin DOMAIN domain_whois(info))
              /\ call'.result[1].score = call.result[1].score
                                            + (IF info # None THEN 15 ELSE 0)
              /\ info = None => stored = None
              /\ info # None =>
                    /\ stored # None
                    /\ stored[1] = [Registrar |-> Rendered(info[1].registrar),
                                    Creation |-> Rendered(info[1].creation_date),
                                    Expiration |-> Rendered(info[1].expiration_date),
                                    Organization |-> Rendered(info[1].org)]
              /\ call'.pc = "holehe_run"]_vars

\* The lookup answered with no registration field and the stage gave its
\* credit.
C24_Witness ==
    /\ call.pc = "holehe_run"
    /\ call.whois_answer # None /\ call.whois_answer[1] # None
    /\ \A f \in DOMAIN call.whois_answer[1][1] : call.whois_answer[1][1][f] = None
    /\ Data.whois_info # None /\ Data.whois_info[1].Registrar = "Unknown"
    /\ Result.score >= 15

\* The platforms, in the order of the dict, whose request came to outcome.
PlatformsWith(http, outcome) ==
    LET hit(name) == \E k \in 1..Len(Platforms) : Platforms[k] = name /\ http[k] = outcome
    IN  SelectSeq(Platforms, hit)

\* C25: the social stage adds 20 when at least one platform answered 200
\* and 0 otherwise, however many answered 200; the record stored lists as
\* found exactly the platforms that answered 200 and as failed exactly the
\* platforms whose request failed, so a failed request stops no later check.
\* A lookup that ends with another exception adds 0.
C25_SocialCredit ==
    [][call.pc = "social" =>
          LET answer == call'.social_answer[1]
              stored == call'.result[1].enrichment_data.social_media
              some == ~answer.raised /\ \E k \in 1..Len(Platforms) : answer.http[k] = "200"
          IN  /\ call'.result[1].score = call.result[1].score + (IF some THEN 20 ELSE 0)
              /\ ~some => stored = None
              /\ some => /\ stored # None
                         /\ stored[1].Found = PlatformsWith(answer.http, "200")
                         /\ stored[1].Failed = PlatformsWith(answer.http, "error")
              /\ call'.pc = "finish"]_vars

\* The request for the first platform failed, the second platform answered
\* 200 and the stage gave its credit.
C25_Witness ==
    /\ call.pc = "finish"
    /\ call.social_answer # None /\ ~call.social_answer[1].raised
    /\ call.social_answer[1].http[1] = "error"
    /\ call.social_answer[1].http[MaxPlatforms] = "200"
    /\ Data.social_media # None
    /\ Data.social_media[1].Failed = <<Platforms[1]>>
    /\ Platforms[MaxPlatforms] \in {Data.social_media[1].Found[k] :
                                       k \in 1..Len(Data.social_media[1].Found)}

\* C26: a returned result has status completed or error and never
\* processing.  The status is error, with the exception's message under
\* 'error', when an exception reached the handler of the outer try, and
\* completed, without message, when the stage sequence ran to its end; no
\* other step writes the status.  In both cases the return sets
\* processing_time to the time that passed since the start, whatever that
\* time is.
C26_FinalStatus ==
    /\ [](Returned =>
             /\ Result.status \in {"completed", "error"}
             /\ Result.status = "error" <=> Result.error # None
             /\ Result.processing_time \in ElapsedValues)
    /\ [](call.pc = "exit" =>
             \A t \in ElapsedValues :
                 ENABLED (DoExit /\ call'.result[1].processing_time = t))
    /\ [][/\ call.pc = "except" =>
                /\ call.exc # ""
                /\ call'.result[1].status = "error"
                /\ call'.result[1].error = Some(call.exc)
                /\ call'.pc = "exit"
          /\ call.pc = "finish" =>
                /\ call'.result[1].status = "completed"
                /\ call'.result[1].error = None
                /\ call'.pc = "exit"
          /\ (call.pc \notin {"entry", "except", "finish"}) =>
                /\ call'.result[1].status = call.result[1].status
                /\ call'.result[1].error = call.result[1].error
          /\ call.pc = "exit" => call'.pc = "returned"]_vars

\* A result with status error, its message and a processing time that is
\* not zero.
C26_Witness ==
    /\ Returned
    /\ Result.status = "error" /\ Result.error = Some("IndexError")
    /\ Result.processing_time = 1

\* C27: while the result of one lead is built its score never decreases
\* from one step to the next: it starts at 0, every stage leaves it or adds
\* to it, and the final clamp leaves a score of at most 100 as it is.
C27_ScoreMonotone ==
    [][/\ (call.pc = "entry" /\ call'.result # None) => call'.result[1].score = 0
       /\ call.result # None =>
             /\ call'.result # None
             /\ call'.result[1].score >= call.result[1].score
       /\ (call.pc = "finish" /\ call.result[1].score <= 100) =>
             call'.result[1].score = call.result[1].score]_vars

\* The clamp has acted on a score that every stage added to.
C27_Witness ==
    /\ call.pc = "exit"
    /\ Result.status = "completed"
    /\ Result.score = 100

\* The most a stage can add.
Weight(stage) ==
    CASE stage = "email" -> 20
      [] stage = "dns" -> 15
      [] stage = "whois" -> 15
      [] stage = "holehe" -> 30
      [] stage = "social" -> 20

RECURSIVE WeightOf(_)
WeightOf(stages) ==
    IF stages = <<>> THEN 0 ELSE Weight(Head(stages)) + WeightOf(Tail(stages))

\* The most the stages entered so far can have added.
WeightSoFar == WeightOf(call.trace)

\* C28: with the weights 20, 15, 15, at most 30 and 20 the credits summed
\* before the clamp never exceed what the stages entered can give, which is
\* at most 100, so the clamp min(score, 100) leaves the score as it is.
C28_ClampNeverActs ==
    /\ [](call.result # None =>
             /\ Result.score <= WeightSoFar
             /\ WeightSoFar <= 100)
    /\ [][call.pc = "finish" => call'.result[1].score = call.result[1].score]_vars

\* Before the clamp: every stage gave its full credit, the account stage
\* for more accounts than its cap pays.
C28_Witness ==
    /\ call.pc = "finish"
    /\ Result.score = 100
    /\ Data.holehe_accounts # None
    /\ 2 * Len(Data.holehe_accounts[1]) > 30

\* A stage has started and not returned: the loop over the candidates of
\* the account-discovery stage is under way, or its output is being parsed.
StageUnderWay ==
    \/ call.pc = "holehe_run" /\ call.path > 1
    \/ call.pc = "holehe_parse"

\* C29: the stages of one call start in the order email validation, DNS,
\* WHOIS, account discovery, social lookup, each at most once and none left
\* out before a later one; a stage starts only when no stage is under way,
\* so no two stages of a call run at once.
C29_StagesInOrder ==
    /\ [](Len(call.trace) <= Len(ProbeStages)
            /\ call.trace = SubSeq(ProbeStages, 1, Len(call.trace)))
    /\ [][call'.trace # call.trace =>
             /\ ~StageUnderWay
             /\ Len(call.trace) < Len(ProbeStages)
             /\ call'.trace = Append(call.trace, ProbeStages[Len(call.trace) + 1])]_vars

\* The account-discovery stage has returned after two candidates and the
\* social lookup is the next to start.
C29_Witness ==
    /\ call.pc = "social"
    /\ call.path = 3
    /\ call.trace = <<"email", "dns", "whois", "holehe">>

\* The lead ids of the results collected so far, and of the leads whose
\* calls ended so far, in the order of the two lists.
CollectedIds == [k \in 1..Len(results) |-> results[k].lead_id]
FinishedIds == [k \in 1..Len(finish_order) |-> leads[finish_order[k]].id]

\* A result is in the list only when the call for its lead has ended.
CollectedAfterFinish ==
    \A k \in 1..Len(results) : \E j \in 1..Len(finish_order) : CollectedIds[k] = FinishedIds[j]

\* C30: a result is appended only after the call for its lead has ended, and
\* the list process_leads_parallel returns has the results in the order in
\* which the calls ended.
C30_CompletionOrder ==
    /\ CollectedAfterFinish
    /\ BatchReturned => CollectedIds = FinishedIds

\* The job threads between the first write of run_osint_processing to
\* processing_status (line 60) and its last (lines 80-81 or 92-94).
Writing == {j \in DOMAIN job_threads : job_threads[j].pc \in {"running", "driver_done"}}

\* The job processing_status names: start_processing writes current_job and
\* total_leads when it starts a thread, so it is the thread started last.
NamedJob == job_threads[Len(job_threads)]

\* C31: the updates of processing_status exclude each other.  While a job
\* thread is between its first and its last write no other thread writes
\* the dict, and what a reader finds in it belongs to one job: a status of
\* completed or error next to the current_job and total_leads of a job says
\* that this job has ended, and a status of running that it is running.
C31_ProgressSerialized ==
    /\ [](job_threads # <<>> =>
             /\ processing_status.status \in {"completed", "error"} =>
                   NamedJob.pc = "finished"
             /\ processing_status.status = "running" =>
                   NamedJob.pc \in {"running", "driver_done"})
    /\ [][(processing_status' # processing_status /\ Writing # {}) =>
             \E j \in Writing : Writing = {j} /\ job_threads'[j].pc = "finished"]_vars

\* The driver has left its last line, by return or by raise.
DriverEnded == pc \in {"driver_returned", "driver_raised"}

C33_LeadsUnchanged ==
    [][leads' = leads /\ lead' = lead]_vars

\* Two pool threads have worked on the batch and it has returned.
C33_Witness ==
    /\ BatchReturned
    /\ Len(running) = 2
    /\ Len(results) = 2
    /\ \A i \in LeadIndex : invoked[i] = 1

\* Job j is at its end.
JobFinished(j) == j \in DOMAIN job_threads /\ job_threads[j].pc = "finished"

\* C34: every job start_processing accepted reaches its end.  The thread
\* sets the status running when it starts; whatever the driver comes to, no
\* exception leaves run_osint_processing: its last step sets end_time and
\* the status completed, or the status error with the exception's message
\* appended to errors; with that status the check of start_processing lets
\* a new job in.
C34_JobReachesEnd ==
    /\ \A j \in 1..MaxRequests : (j \in DOMAIN job_threads) ~> JobFinished(j)
    /\ [][\A j \in DOMAIN job_threads :
             /\ (job_threads[j].pc = "started" /\ job_threads'[j].pc # "started") =>
                   /\ job_threads'[j].pc = "running"
                   /\ processing_status'.status = "running"
             /\ (job_threads[j].pc = "driver_done" /\ job_threads'[j].pc # "driver_done") =>
                   /\ job_threads'[j].pc = "finished"
                   /\ processing_status'.end_time # None
                   /\ processing_status'.status \notin {"running", "starting"}
                   /\ IF job_threads[j].driver[1].exc = ""
                      THEN /\ processing_status'.status = "completed"
                           /\ processing_status'.errors = processing_status.errors
                      ELSE /\ processing_status'.status = "error"
                           /\ processing_status'.errors =
                                 Append(processing_status.errors, job_threads[j].driver[1].exc)
             /\ job_threads[j].pc = "finished" => job_threads'[j].pc = "finished"]_vars

\* A job whose driver raised is at its end, the status error and the message
\* in errors; a request that came after it was let in.
C34_Witness ==
    /\ JobFinished(1)
    /\ job_threads[1].driver[1].exc = "OSError"
    /\ processing_status.status = "error"
    /\ processing_status.errors = <<"OSError">>
    /\ processing_status.end_time # None
    /\ \E r \in DOMAIN requests : requests[r].pc = "checked"

\* C35: a job started with batch_size B enriches B leads: when its driver
\* has returned, the number of results is the batch_size the job was started
\* with, which is the total_leads start_processing wrote for it.
C35_BatchSizeEnriched ==
    \A j \in DOMAIN job_threads :
        (job_threads[j].driver # None /\ job_threads[j].driver[1].returned) =>
            /\ job_threads[j].driver[1].results = job_threads[j].batch_size
            /\ Len(job_threads) = 1 =>
                  processing_status.total_leads = job_threads[j].driver[1].results

\* -------------------------------------------- claims: pocketbase_client.py
Sends(log) == Cardinality({n \in DOMAIN log : log[n] = "send"})

Unauthorized(answer) ==
    answer # None /\ answer[1].kind = "response" /\ answer[1].status = 401

\* The value _post, _get and the writers return for a failure.
Failure(op) == IF op \in GetOps THEN Some(<<>>) ELSE None

\* The second request is about to be sent.
Retrying == pb.op \in PostOps \cup GetOps /\ pb.after = "resend" /\ pb.pc # "returned"

\* C36: a call of _post or _get (directly or through a writer) sends its
\* request at most twice.  The answer of the first request either ends the
\* call or, when it is a 401, clears the token and the Authorization header
\* and leads to the second request; the second request is sent only after a
\* 401 to the first and after authenticate was tried again; the answer of
\* the second request ends the call, and a 401 or any other failure there
\* is returned as the failure value.
C36_AtMostTwoSends ==
    /\ [](pb.op \in PostOps \cup GetOps =>
            /\ Sends(pb.log) <= 2
            /\ Retrying =>
                  /\ Sends(pb.log) = 1
                  /\ Unauthorized(pb.answer)
                  /\ \E n \in DOMAIN pb.log : pb.log[n] = "clear"
                  /\ pb.pc = "resend" => pb.log[Len(pb.log)] \in {"user", "admin"}
            /\ Sends(pb.log) = 2 =>
                  /\ pb.pc = "returned"
                  /\ (pb.answer[1].kind = "raise" \/ ~Ok(pb.answer[1])) => pb.ret = Failure(pb.op))
    /\ [][/\ pb.pc = "send" /\ pb' # pb =>
                IF Unauthorized(pb'.answer)
                THEN /\ pb'.auth_token = None /\ pb'.authorization = None
                     /\ pb'.pc = "ensure" /\ Sends(pb'.log) = 1
                ELSE pb'.pc = "returned" /\ Sends(pb'.log) <= 1
          /\ Sends(pb'.log) > Sends(pb.log) => pb.pc \in {"send", "resend"}
          /\ pb.pc = "resend" /\ pb' # pb => pb'.pc = "returned" /\ Sends(pb'.log) = 2]_vars

\* A writer got a 401 twice and returned None.
C36_Witness ==
    /\ pb.op = "create_lead" /\ pb.pc = "returned" /\ Sends(pb.log) = 2
    /\ Unauthorized(pb.answer) /\ pb.ret = None

\* authenticate is under way, or has just returned to the caller of it.
InAuthenticate == pb.pc \in {"auth_user", "auth_admin"}

\* The attempts of the authenticate under way, or of the one that was called
\* last: the part of the log after the last request.
RECURSIVE Attempts(_)
Attempts(log) ==
    IF log = <<>> \/ log[Len(log)] \notin {"user", "admin"} THEN <<>>
    ELSE Append(Attempts(SubSeq(log, 1, Len(log) - 1)), log[Len(log)])

\* C37: authenticate tries the service user's credentials first (when it
\* has them) and the admin's only when the user's attempt yielded no token.
\* It returns True exactly when an attempt obtained a token, and then
\* auth_token is that token and the Authorization header is made of it; when
\* it returns False, auth_token and the header are what they were at its
\* entry.
C37_Authenticate ==
    /\ [](InAuthenticate =>
            /\ pb.auth_token = pb.before.auth_token
            /\ pb.authorization = pb.before.authorization
            /\ pb.granted = None
            /\ Attempts(pb.log) = IF pb.pc = "auth_user" \/ ~pb.has_user THEN <<>>
                                  ELSE <<"user">>)
    /\ [][InAuthenticate /\ pb'.pc = pb.after =>
            /\ pb'.auth_ret = Some(pb'.granted # None)
            /\ pb'.op = "authenticate" => pb'.ret = pb'.auth_ret
            /\ Attempts(pb'.log) \in {<<"user">>, <<"admin">>, <<"user", "admin">>}
            /\ (Attempts(pb'.log) = <<"admin">>) = ~pb.has_user
            /\ IF pb'.granted # None
               THEN /\ pb'.auth_token = pb'.granted
                    /\ pb'.authorization = Some(Bearer(pb'.granted[1]))
               ELSE /\ pb'.auth_token = pb.before.auth_token
                    /\ pb'.authorization = pb.before.authorization
                    /\ Attempts(pb'.log)[Len(Attempts(pb'.log))] = "admin"]_vars

\* The user's attempt failed, the admin's obtained the token t2, while the
\* client held the token t1.
C37_Witness ==
    /\ pb.op = "authenticate" /\ pb.pc = "returned" /\ pb.ret = Some(TRUE)
    /\ pb.log = <<"user", "admin">>
    /\ pb.before.auth_token = Some("t1")
    /\ pb.auth_token = Some("t2") /\ pb.authorization = Some(Bearer("t2"))

Writers == {"create_lead", "create_osint_result", "update_processing_status"}

\* The server answered the last request with an OK response.
Accepted == pb.answer # None /\ pb.answer[1].kind = "response" /\ Ok(pb.answer[1])

\* The authenticate called last in this call returned False.
AuthenticationFailed == pb.auth_ret = Some(FALSE)

\* C38: a writer and _get never raise.  A writer returns the id of the
\* record when the server accepted the POST with a record in the body, and
\* None after a response that is not OK, after a failed authentication and
\* after any exception; _get returns [] in those cases.
C38_WritersNeverRaise ==
    pb.op \in Writers \cup GetOps =>
        /\ pb.pc # "raised"
        /\ pb.pc = "returned" =>
              /\ (pb.op \in Writers /\ Accepted /\ pb.answer[1].json # None
                      /\ pb.answer[1].json[1].id # None)
                    => pb.ret = pb.answer[1].json[1].id
              /\ (~Accepted \/ AuthenticationFailed) => pb.ret = Failure(pb.op)

\* ---------------------------------------------------- claims: exporter.py
\* The leads among ls[a..b] that _transform_lead_for_unified transforms.
Transformable(ls, a, b) ==
    Cardinality({n \in a..b : n \in DOMAIN ls /\ ls[n].enrichment_json = "object"})

\* The sizes of the batches posted once the loop has reached position i:
\* those of the consecutive slices of ExportBatchSize leads, the slices
\* without a transformable lead left out.
RECURSIVE PostsUpTo(_, _)
PostsUpTo(ls, i) ==
    IF i <= 0 THEN <<>>
    ELSE LET n == Transformable(ls, i - ExportBatchSize + 1, i)
         IN  PostsUpTo(ls, i - ExportBatchSize) \o (IF n = 0 THEN <<>> ELSE <<n>>)

\* C39: export_to_unified_leads posts the leads in consecutive batches of at
\* most 100; a batch answered by another status than 200 or 201, or by an
\* exception, is counted as failed and the next batch is posted all the
\* same; on return exported + failed is the number of leads transformed,
\* at most the total, and success is exported > 0; without API key nothing
\* is posted and exported = failed = 0.
C39_ExportBatches ==
    /\ [](export.pc = "batch" =>
            /\ export.posts = PostsUpTo(export.leads, export.i)
            /\ \A n \in DOMAIN export.posts : export.posts[n] \in 1..ExportBatchSize
            /\ export.exported + export.failed
                  = Transformable(export.leads, 1, export.i))
    /\ []((export.pc = "returned" /\ export.result # None) =>
            IF export.api_key
            THEN /\ export.result[1].exported + export.result[1].failed
                       = Transformable(export.leads, 1, Len(export.leads))
                 /\ export.result[1].exported + export.result[1].failed
                       <= export.result[1].total[1]
                 /\ export.result[1].total[1] = Len(export.leads)
                 /\ export.result[1].success = (export.result[1].exported > 0)
                 /\ export.posts
                       = PostsUpTo(export.leads,
                                   ((Len(export.leads) + ExportBatchSize - 1)
                                        \div ExportBatchSize) * ExportBatchSize)
            ELSE /\ export.posts = <<>>
                 /\ export.result[1].exported = 0 /\ export.result[1].failed = 0
                 /\ ~export.result[1].success)
    /\ [][export.pc = "batch" /\ export'.pc = "batch" /\ export' # export =>
            /\ export'.i = export.i + ExportBatchSize
            /\ export'.leads = export.leads
            /\ Len(export'.errors) > Len(export.errors) =>
                  /\ export'.exported = export.exported
                  /\ export'.failed > export.failed]_vars

\* Of three batches the first failed and the two after it were exported.
C39_Witness ==
    /\ export.op = "export_to_unified_leads" /\ export.pc = "returned"
    /\ export.result # None
    /\ export.posts = <<ExportBatchSize, ExportBatchSize, 1>>
    /\ Len(export.errors) = 1
    /\ export.result[1].failed = ExportBatchSize
    /\ export.result[1].exported = ExportBatchSize + 1
    /\ export.result[1].success

\* The server answered the GET of the exporter with its records.
Listed ==
    /\ pb.op = "_get" /\ pb.caller = "export" /\ pb.pc = "returned"
    /\ Accepted /\ pb.answer[1].json # None /\ pb.answer[1].json[1].items # None

\* C40: with a PocketBase client and k records listed by the server,
\* _fetch_enriched_leads returns k leads: export_completed_enrichments
\* reports fetched = k and hands those k leads to export_to_unified_leads
\* when there is an API key.
C40_FetchedAll ==
    (export.op = "export_completed_enrichments" /\ export.pb_client
        /\ export.enriched_leads # None /\ Listed) =>
        \E k \in {Len(pb.answer[1].json[1].items[1])} :
           /\ Len(export.enriched_leads[1]) = k
           /\ export.results[1].fetched = k
           /\ (export.api_key /\ k > 0) => Len(export.leads) = k

====
